---- MODULE Spec2Model ----
(***************************************************************************)
(* A model of the core of the LLM code reviewer: the diff compactor        *)
(* (CodeReviewWorker.get_sampled_code_lines), the virtual diff synthesizer *)
(* (RepoScanner.create_virtual_diff / _create_simplified_diff), the        *)
(* llm_response parser cascade (CodeReviewWorker.parse_llm_response), the      *)
(* severity classifier and the single review step of a worker.             *)
(*                                                                         *)
(* Text is modelled as a sequence of characters (one-character strings; a  *)
(* non-ASCII character and the backtick are written as their code point,   *)
(* "u884c", "u0060").  An                                                  *)
(* optional value (Python's None) is the empty tuple <<>>, a present value *)
(* v is <<v>>.                                                             *)
(***************************************************************************)
EXTENDS Integers, Sequences, FiniteSets, TLC

VARIABLES
    \* --- diff compactor -------------------------------------------------
    git_diff,              \* what diff_parser extracts from the diff text
    is_repo_scan,          \* the is_repo_scan argument: <<>> (None), <<TRUE>>, <<FALSE>>
    formatted_code_lines,  \* the list get_sampled_code_lines returns
    cpc                    \* "idle" | "start" | "done"

compactorVars == <<git_diff, is_repo_scan, formatted_code_lines, cpc>>

VARIABLES
    \* --- virtual diff synthesizer ---------------------------------------
    files_to_scan,         \* the list of relative paths handed in
    fs,                    \* the file system: path -> file state
    synth,                 \* "virtual" (create_virtual_diff) | "simplified"
    visited,               \* how many paths the loop has gone through
    acc,                   \* processed_files, skipped_files, total_lines, diff
    stats,                 \* the returned statistics, None until the return
    spc                    \* "idle" | "loop" | "done"

synthVars == <<files_to_scan, fs, synth, visited, acc, stats, spc>>

VARIABLES
    \* --- severity classifier ---------------------------------------------
    category,              \* self.category of the worker
    comment_text,          \* the text of the comment being classified
    sev_source,            \* where the starting severity comes from
    severity,              \* the classified severity, None until classified
    vpc                    \* "idle" | "start" | "done"

severityVars == <<category, comment_text, sev_source, severity, vpc>>

VARIABLES
    \* --- response parser -------------------------------------------------
    llm_output,            \* the shape of the text the model wrote
    llm_response,          \* the string handed to parse_llm_response
    parser_category,       \* self.category of the worker that parses
    parse_result,          \* the rule that returned and its comments, None before
    ppc                    \* "idle" | "start" | "done"

parserVars == <<llm_output, llm_response, parser_category, parse_result, ppc>>

VARIABLES
    \* --- single review of a worker ---------------------------------------
    client,                \* what the model client does on each of the two calls
    worker_category,       \* self.category
    chunks_read,           \* how many chunks of the stream the loop has taken
    llm_content,           \* response_content: the content collected so far
    model_calls,           \* the calls made to the client, in order
    worker_response,       \* the comments of the WorkerResponse, None before
    wpc                    \* "idle" | "start" | "streaming" | "fallback" | "collected" | "done"

workerVars ==
    <<client, worker_category, chunks_read, llm_content, model_calls,
      worker_response, wpc>>

VARIABLES
    \* --- file-by-file review of a worker: _review_repo_scan --------------
    scan_files,            \* files_to_scan: the paths extracted from the diff
    repo_content,          \* path -> what _get_file_content returns for it
    file_index,            \* how many files the loop has gone through
    all_comments,          \* the comments gathered so far
    scanned,               \* the paths whose review ended (console, line 547)
    rpc                    \* "idle" | "loop" | "reviewing" | "returned"

repoScanVars == <<scan_files, repo_content, file_index, all_comments, scanned, rpc>>

VARIABLES
    \* --- scan of a repository: RepoScanner.scan_repository ---------------
    categories,            \* the categories argument, in order
    review_outcomes,       \* per worker: what its review() does
    diff_validates,        \* whether PatchSet accepts the virtual diff
    scan_stats,            \* the statistics create_virtual_diff returned, None before
    worker_index,          \* how many workers the loop has gone through
    review_calls,          \* the categories whose review() was called, in order
    invocations,           \* the calls made to the model client, in order
    worker_responses,      \* the responses of the workers that returned
    scan_result,           \* the CodeReviewResponse returned, None before
    kpc                    \* "idle" | "start" | "validate" | "review" | "returned"

scanVars ==
    <<categories, review_outcomes, diff_validates, scan_stats, worker_index,
      review_calls, invocations, worker_responses, scan_result, kpc>>

VARIABLES
    \* --- rendering of a review: format_review ----------------------------
    review_response,       \* the CodeReviewResponse handed to the formatter
    comments_by_file,      \* file name -> the (line, comment) pairs, None before
    md_output,             \* the rendered text, None before
    fpc                    \* "idle" | "review" | "aggregated" | "organized" | "formatted"

formatVars == <<review_response, comments_by_file, md_output, fpc>>

orchestrationVars == <<repoScanVars, scanVars, formatVars>>

vars == <<compactorVars, synthVars, severityVars, parserVars, workerVars, orchestrationVars>>

None == <<>>
Some(v) == <<v>>

(***************************************************************************)
(* The parts of the state a specification does not exercise stay idle      *)
(***************************************************************************)
CompactorIdle ==
    /\ git_diff = [modified_files |-> 0, new_file_mode |-> FALSE, added |-> <<>>]
    /\ is_repo_scan = None
    /\ formatted_code_lines = <<>>
    /\ cpc = "idle"

SynthIdle ==
    /\ files_to_scan = <<>>
    /\ fs = [p \in {"a.py", "b.py", "c.py"} |-> [exists |-> FALSE, readable |-> FALSE, content |-> <<>>]]
    /\ synth = "virtual"
    /\ visited = 0
    /\ acc = [processed_files |-> 0, skipped_files |-> 0, total_lines |-> 0, diff |-> <<>>]
    /\ stats = None
    /\ spc = "idle"

ParserIdle ==
    /\ llm_output = [kind |-> "none"]
    /\ llm_response = <<>>
    /\ parser_category = "FUNCTIONALITY"
    /\ parse_result = None
    /\ ppc = "idle"

WorkerIdle ==
    /\ client = [kind |-> "none"]
    /\ worker_category = "FUNCTIONALITY"
    /\ chunks_read = 0
    /\ llm_content = None
    /\ model_calls = <<>>
    /\ worker_response = None
    /\ wpc = "idle"

RepoScanIdle ==
    /\ scan_files = <<>>
    /\ repo_content = <<>>
    /\ file_index = 0
    /\ all_comments = <<>>
    /\ scanned = <<>>
    /\ rpc = "idle"

ScanIdle ==
    /\ categories = <<>>
    /\ review_outcomes = <<>>
    /\ diff_validates = TRUE
    /\ scan_stats = None
    /\ worker_index = 0
    /\ review_calls = <<>>
    /\ invocations = <<>>
    /\ worker_responses = <<>>
    /\ scan_result = None
    /\ kpc = "idle"

FormatIdle ==
    /\ review_response = None
    /\ comments_by_file = None
    /\ md_output = None
    /\ fpc = "idle"

SeverityIdle ==
    /\ category = "FUNCTIONALITY"
    /\ comment_text = <<>>
    /\ sev_source = [from |-> "none"]
    /\ severity = None
    /\ vpc = "idle"

(***************************************************************************)
(* Python arithmetic and slicing                                           *)
(***************************************************************************)
\* a // b for b > 0: the floor of the quotient, also for negative a
PyFloorDiv(a, b) == IF a >= 0 THEN a \div b ELSE -(((-a) + b - 1) \div b)

\* lst[:k]
PySliceTo(lst, k) ==
    LET n == Len(lst)
        e == IF k >= 0 THEN (IF k < n THEN k ELSE n)
                       ELSE (IF n + k > 0 THEN n + k ELSE 0)
    IN SubSeq(lst, 1, e)

\* lst[m:]
PySliceFrom(lst, m) ==
    LET n == Len(lst)
        s == IF m >= 0 THEN (IF m < n THEN m ELSE n)
                       ELSE (IF n + m > 0 THEN n + m ELSE 0)
    IN SubSeq(lst, s + 1, n)

\* lst.insert(i, x) for 0 <= i
PyInsert(lst, i, x) ==
    LET p == IF i < Len(lst) THEN i ELSE Len(lst)
    IN SubSeq(lst, 1, p) \o <<x>> \o SubSeq(lst, p + 1, Len(lst))

(***************************************************************************)
(* Text helpers                                                            *)
(***************************************************************************)
\* the characters str.strip() and the regular expression class \s remove
IsSpace(c) == c \in {" ", "\n", "\t"}

\* the least and the greatest of a non-empty set of positions
MinOf(S) == CHOOSE x \in S : \A y \in S : x <= y
MaxOf(S) == CHOOSE x \in S : \A y \in S : y <= x

\* the first position at or after i that holds no white space
SkipWs(s, i) ==
    LET stops == { p \in i..Len(s) : ~IsSpace(s[p]) }
    IN IF i > Len(s) THEN i ELSE IF stops = {} THEN Len(s) + 1 ELSE MinOf(stops)

\* the last position at or before i that holds no white space (0: none)
SkipWsBack(s, i) ==
    LET stops == { p \in 1..i : ~IsSpace(s[p]) }
    IN IF i < 1 THEN i ELSE IF stops = {} THEN 0 ELSE MaxOf(stops)

\* str.lstrip(), str.rstrip()
LStrip(s) == SubSeq(s, SkipWs(s, 1), Len(s))
RStrip(s) == SubSeq(s, 1, SkipWsBack(s, Len(s)))

\* str.strip()
Strip(s) == RStrip(LStrip(s))

UpperCase == <<"A", "B", "C", "D", "E", "F", "G", "H", "I", "J", "K", "L", "M", "N", "O", "P", "Q", "R", "S", "T", "U", "V", "W", "X", "Y", "Z">>
LowerCase == <<"a", "b", "c", "d", "e", "f", "g", "h", "i", "j", "k", "l", "m", "n", "o", "p", "q", "r", "s", "t", "u", "v", "w", "x", "y", "z">>

LowerChar(c) ==
    IF \E i \in 1..Len(UpperCase) : UpperCase[i] = c
    THEN LowerCase[CHOOSE i \in 1..Len(UpperCase) : UpperCase[i] = c]
    ELSE c

\* str.lower()
Lower(s) == [i \in 1..Len(s) |-> LowerChar(s[i])]

\* kw in s
Contains(s, kw) ==
    \E i \in 1..(Len(s) - Len(kw) + 1) : SubSeq(s, i, i + Len(kw) - 1) = kw

\* any(keyword in s for keyword in keywords)
ContainsAny(s, keywords) == \E k \in 1..Len(keywords) : Contains(s, keywords[k])

\* s.startswith(prefix)
StartsWith(s, prefix) == Len(s) >= Len(prefix) /\ SubSeq(s, 1, Len(prefix)) = prefix

\* " ".join(words)
RECURSIVE JoinWith(_, _)
JoinWith(words, sep) ==
    IF words = <<>> THEN <<>>
    ELSE IF Len(words) = 1 THEN words[1]
    ELSE words[1] \o sep \o JoinWith(Tail(words), sep)

\* str.splitlines(): the lines of s, a trailing line break opening no new line
RECURSIVE SplitLinesFrom(_, _)
SplitLinesFrom(s, i) ==
    IF i > Len(s) THEN <<>>
    ELSE LET breaks == { p \in i..Len(s) : s[p] = "\n" }
             b == IF breaks = {} THEN Len(s) + 1 ELSE MinOf(breaks)
         IN <<SubSeq(s, i, b - 1)>> \o SplitLinesFrom(s, b + 1)

SplitLines(s) == SplitLinesFrom(s, 1)

(***************************************************************************)
(* json.loads, for the JSON the model's responses can hold: arrays,        *)
(* objects, strings without escapes and non-negative integers.  A parsed   *)
(* value is a record tagged by t: "arr", "obj", "str" or "int".  The       *)
(* responses hold no backslash, sign, fraction or exponent, and no letters *)
(* that spell true, false, null, NaN or Infinity.                          *)
(***************************************************************************)
JStr(chars) == [t |-> "str", s |-> chars]
JInt(n) == [t |-> "int", n |-> n]
JArr(items) == [t |-> "arr", items |-> items]
JObj(keys, vals) == [t |-> "obj", keys |-> keys, vals |-> vals]

Digits == <<"0", "1", "2", "3", "4", "5", "6", "7", "8", "9">>
IsDigit(c) == \E d \in 1..10 : Digits[d] = c
DigitVal(c) == (CHOOSE d \in 1..10 : Digits[d] = c) - 1

\* Bound: the nesting of arrays and objects the decoder accepts; one level
\* more and json.loads raises RecursionError (the interpreter's recursion
\* limit, about a thousand levels, scaled down)
MaxJsonDepth == 4

\* a JSONDecodeError, and the RecursionError of a nesting that is too deep
JFail == [ok |-> FALSE, deep |-> FALSE]
JTooDeep == [ok |-> FALSE, deep |-> TRUE]
JOk(v, next) == [ok |-> TRUE, v |-> v, next |-> next]

\* a string literal opening at s[i] = '"': it ends at the next quote; a
\* control character inside it is an error (strict mode)
ParseString(s, j) ==
    LET quotes == { p \in j..Len(s) : s[p] = "\"" }
        q == MinOf(quotes)
    IN IF quotes = {} THEN JFail
       ELSE IF \E p \in j..(q - 1) : s[p] \in {"\n", "\t"} THEN JFail
       ELSE JOk(JStr(SubSeq(s, j, q - 1)), q + 1)

\* the digits of an integer; a leading 0 is a number of its own
RECURSIVE ParseDigits(_, _, _)
ParseDigits(s, j, n) ==
    IF j <= Len(s) /\ IsDigit(s[j]) THEN ParseDigits(s, j + 1, 10 * n + DigitVal(s[j]))
    ELSE JOk(JInt(n), j)

ParseInt(s, i) == IF s[i] = "0" THEN JOk(JInt(0), i + 1) ELSE ParseDigits(s, i, 0)

\* a minus sign and the integer behind it
ParseNegativeInt(s, i) ==
    IF i + 1 <= Len(s) /\ IsDigit(s[i + 1])
    THEN JOk(JInt(-ParseInt(s, i + 1).v.n), ParseInt(s, i + 1).next)
    ELSE JFail

\* a key that occurs again keeps its place and takes the later value
ObjPut(keys, vals, k, v) ==
    IF \E p \in 1..Len(keys) : keys[p] = k
    THEN LET p == CHOOSE q \in 1..Len(keys) : keys[q] = k
         IN JObj(keys, [vals EXCEPT ![p] = v])
    ELSE JObj(Append(keys, k), Append(vals, v))

\* d is the nesting level of the value at s[i]
RECURSIVE ParseValue(_, _, _), ParseItems(_, _, _, _), ParseMembers(_, _, _, _)
ParseValue(s, i, d) ==
    IF i > Len(s) THEN JFail
    ELSE IF s[i] \in {"[", "{"} /\ d > MaxJsonDepth THEN JTooDeep
    ELSE IF s[i] = "[" THEN
        LET j == SkipWs(s, i + 1)
        IN IF j <= Len(s) /\ s[j] = "]" THEN JOk(JArr(<<>>), j + 1)
           ELSE ParseItems(s, j, <<>>, d + 1)
    ELSE IF s[i] = "{" THEN
        LET j == SkipWs(s, i + 1)
        IN IF j <= Len(s) /\ s[j] = "}" THEN JOk(JObj(<<>>, <<>>), j + 1)
           ELSE ParseMembers(s, j, JObj(<<>>, <<>>), d + 1)
    ELSE IF s[i] = "\"" THEN ParseString(s, i + 1)
    ELSE IF IsDigit(s[i]) THEN ParseInt(s, i)
    ELSE IF s[i] = "-" THEN ParseNegativeInt(s, i)
    ELSE JFail

\* the elements of an array from position i on, up to its "]"
ParseItems(s, i, items, d) ==
    LET r == ParseValue(s, i, d)
    IN IF ~r.ok THEN r
       ELSE LET j == SkipWs(s, r.next)
            IN IF j > Len(s) THEN JFail
               ELSE IF s[j] = "," THEN ParseItems(s, SkipWs(s, j + 1), Append(items, r.v), d)
               ELSE IF s[j] = "]" THEN JOk(JArr(Append(items, r.v)), j + 1)
               ELSE JFail

\* the members of an object from position i on, up to its "}"
ParseMembers(s, i, obj, d) ==
    IF i > Len(s) \/ s[i] # "\"" THEN JFail
    ELSE LET k == ParseString(s, i + 1)
         IN IF ~k.ok THEN JFail
            ELSE LET c == SkipWs(s, k.next)
                 IN IF c > Len(s) \/ s[c] # ":" THEN JFail
                    ELSE LET r == ParseValue(s, SkipWs(s, c + 1), d)
                         IN IF ~r.ok THEN r
                            ELSE LET j == SkipWs(s, r.next)
                                     o == ObjPut(obj.keys, obj.vals, k.v.s, r.v)
                                 IN IF j > Len(s) THEN JFail
                                    ELSE IF s[j] = ","
                                         THEN ParseMembers(s, SkipWs(s, j + 1), o, d)
                                    ELSE IF s[j] = "}" THEN JOk(o, j + 1)
                                    ELSE JFail

\* json.loads(s): Some(value), or None for the exception it raises
JsonLoads(s) ==
    LET r == ParseValue(s, SkipWs(s, 1), 1)
    IN IF r.ok /\ SkipWs(s, r.next) > Len(s) THEN Some(r.v) ELSE None

\* json.loads(s) raises RecursionError, which is no ValueError
JsonLoadsTooDeep(s) ==
    LET r == ParseValue(s, SkipWs(s, 1), 1)
    IN ~r.ok /\ r.deep

(***************************************************************************)
(* The regular expressions of the parser                                   *)
(***************************************************************************)
\* re.sub(r'\s+', '', s)
RemoveSpace(s) == SelectSeq(s, LAMBDA c : ~IsSpace(c))

\* s[i:] from the 1-based position i
From(s, i) == SubSeq(s, i, Len(s))

\* \[\s*\]\s* and a closing fence (three backticks) matched at the start of s
BracketsThenFence(s) ==
    /\ StartsWith(s, <<"[">>)
    /\ LET a == LStrip(From(s, 2))
       IN /\ StartsWith(a, <<"]">>)
          /\ StartsWith(LStrip(From(a, 2)), <<"u0060", "u0060", "u0060">>)

\* re.match of the fenced pattern of line 385 (fence, optional json, \s*, [, \s*, ],
\* \s*, fence) with re.DOTALL | re.IGNORECASE
MatchFencedEmptyArray(s) ==
    /\ StartsWith(s, <<"u0060", "u0060", "u0060">>)
    /\ LET rest == From(s, 4)
       IN \/ BracketsThenFence(LStrip(rest))
          \/ /\ StartsWith(Lower(SubSeq(rest, 1, IF Len(rest) < 4 THEN Len(rest) ELSE 4)),
                           <<"j", "s", "o", "n">>)
             /\ BracketsThenFence(LStrip(From(rest, 5)))

\* re.match of the backtick pattern of line 386: backtick, [, \s*, ], backtick
MatchBacktickEmptyArray(s) ==
    /\ StartsWith(s, <<"u0060", "[">>)
    /\ StartsWith(LStrip(From(s, 3)), <<"]", "u0060">>)

\* the position of the first c at or after i, Len(s) + 1 when there is none
IndexFrom(s, c, i) ==
    LET hits == { p \in i..Len(s) : s[p] = c }
    IN IF hits = {} THEN Len(s) + 1 ELSE MinOf(hits)

\* re.findall(r'\[.*?\]', s, re.DOTALL): from each "[" to the nearest "]"
\* after it, the search going on behind the match
RECURSIVE FindAllArrays(_, _)
FindAllArrays(s, i) ==
    LET open == IndexFrom(s, "[", i)
        close == IndexFrom(s, "]", open + 1)
    IN IF open > Len(s) \/ close > Len(s) THEN <<>>
       ELSE <<SubSeq(s, open, close)>> \o FindAllArrays(s, close + 1)

\* where \[\s*{.*}\s*\] matched from the "[" at i ends: the last "]" that a
\* "}" behind the opening "{" precedes, white space apart (0: no match)
ArrayOfObjectsEnd(s, i) ==
    LET j == SkipWs(s, i + 1)
        ends == { e \in (j + 2)..Len(s) :
                    /\ s[e] = "]"
                    /\ LET k == SkipWsBack(s, e - 1) IN k > j /\ s[k] = "}" }
    IN IF s[i] = "[" /\ j <= Len(s) /\ s[j] = "{" /\ ends # {}
       THEN CHOOSE e \in ends : \A f \in ends : f <= e
       ELSE 0

\* re.search(r'\[\s*{.*}\s*\]', s, re.DOTALL): Some(match.group(0)) or None
SearchArrayOfObjects(s) ==
    LET starts == { i \in 1..Len(s) : ArrayOfObjectsEnd(s, i) # 0 }
    IN IF starts = {} THEN None
       ELSE LET i == CHOOSE a \in starts : \A b \in starts : a <= b
            IN Some(SubSeq(s, i, ArrayOfObjectsEnd(s, i)))

\* s.split('\n\n')
RECURSIVE SplitParagraphsFrom(_, _)
SplitParagraphsFrom(s, i) ==
    LET breaks == { b \in i..(Len(s) - 1) : s[b] = "\n" /\ s[b + 1] = "\n" }
    IN IF breaks = {} THEN <<SubSeq(s, i, Len(s))>>
       ELSE LET b == CHOOSE x \in breaks : \A y \in breaks : x <= y
            IN <<SubSeq(s, i, b - 1)>> \o SplitParagraphsFrom(s, b + 2)

SplitParagraphs(s) == SplitParagraphsFrom(s, 1)

(***************************************************************************)
(* Virtual diff synthesizer                                                *)
(***************************************************************************)
\* Bound: the number of paths handed to the synthesizer
MaxPaths == 3

Paths == {"a.py", "b.py", "c.py"}

\* a code file of twenty lines
TwentyLines == [i \in 1..40 |-> IF i % 2 = 1 THEN "x" ELSE "\n"]

FileContents ==
    { <<>>, <<" ", "\n">>, <<"x">>, <<"x", "\n", "\n", "y", "\n">>, TwentyLines }

\* a path is missing, exists but cannot be opened or read, or has a content
FileStates ==
    { [exists |-> FALSE, readable |-> FALSE, content |-> <<>>],
      [exists |-> TRUE, readable |-> FALSE, content |-> <<>>] }
    \cup { [exists |-> TRUE, readable |-> TRUE, content |-> c] : c \in FileContents }

RECURSIVE SeqsUpTo(_, _)
SeqsUpTo(S, n) ==
    IF n = 0 THEN { <<>> }
    ELSE LET shorter == SeqsUpTo(S, n - 1)
         IN shorter \cup { Append(q, x) : q \in shorter, x \in S }

EmptyAcc ==
    [processed_files |-> 0, skipped_files |-> 0, total_lines |-> 0, diff |-> <<>>]

Skipped(a) == [a EXCEPT !.skipped_files = @ + 1]

\* the six header lines and the added lines of one file (lines 345-354)
VirtualBlock(path, lines) ==
    << [kind |-> "diff_git", path |-> path],
       [kind |-> "new_file_mode"],
       [kind |-> "index"],
       [kind |-> "minus_dev_null"],
       [kind |-> "plus_b", path |-> path],
       [kind |-> "hunk", count |-> Len(lines)] >>
    \o [i \in 1..Len(lines) |-> [kind |-> "added", text |-> lines[i]]]

\* Mutant: a read error is logged but not counted as skipped
VirtualDiffStep_ErrorNotCounted(a, path, file) ==
    IF ~file.exists THEN Skipped(a)
    ELSE IF ~file.readable THEN a
    ELSE IF Strip(file.content) = <<>> THEN Skipped(a)
    ELSE LET lines == SplitLines(file.content)
         IN [processed_files |-> a.processed_files + 1,
             skipped_files |-> a.skipped_files,
             total_lines |-> a.total_lines + Len(lines),
             diff |-> a.diff \o VirtualBlock(path, lines)]

\* Mutant: a whitespace-only file is processed like any other
VirtualDiffStep_BlankProcessed(a, path, file) ==
    IF ~file.exists THEN Skipped(a)
    ELSE IF ~file.readable THEN Skipped(a)
    ELSE LET lines == SplitLines(file.content)
         IN IF lines = <<>> THEN Skipped(a)
            ELSE [processed_files |-> a.processed_files + 1,
                  skipped_files |-> a.skipped_files,
                  total_lines |-> a.total_lines + Len(lines),
                  diff |-> a.diff \o VirtualBlock(path, lines)]

\* one iteration of the loop of create_virtual_diff (lines 314-359)
VirtualDiffStep(a, path, file) ==
    IF ~file.exists THEN Skipped(a)
    ELSE IF ~file.readable THEN Skipped(a)          \* open or read raised
    ELSE IF Strip(file.content) = <<>> THEN Skipped(a)
    ELSE LET lines == SplitLines(file.content)
         IN IF lines = <<>> THEN Skipped(a)
            ELSE [processed_files |-> a.processed_files + 1,
                  skipped_files |-> a.skipped_files,
                  total_lines |-> a.total_lines + Len(lines),
                  diff |-> a.diff \o VirtualBlock(path, lines)]

\* Mutant: the fallback counts a file of white space only as processed
SimplifiedDiffStep_BlankProcessed(a, path, file) ==
    IF ~file.exists THEN Skipped(a)
    ELSE IF ~file.readable THEN Skipped(a)
    ELSE IF file.content = <<>> THEN Skipped(a)
    ELSE [processed_files |-> a.processed_files + 1,
          skipped_files |-> a.skipped_files,
          total_lines |-> a.total_lines + Len(SplitLines(file.content)),
          diff |-> a.diff \o << [kind |-> "file_marker", path |-> path],
                                [kind |-> "content", text |-> file.content],
                                [kind |-> "end_marker", path |-> path] >>]

\* one iteration of the loop of _create_simplified_diff (lines 393-422)
SimplifiedDiffStep(a, path, file) ==
    IF ~file.exists THEN Skipped(a)
    ELSE IF ~file.readable THEN Skipped(a)
    ELSE IF Strip(file.content) = <<>> THEN Skipped(a)
    ELSE [processed_files |-> a.processed_files + 1,
          skipped_files |-> a.skipped_files,
          total_lines |-> a.total_lines + Len(SplitLines(file.content)),
          diff |-> a.diff \o << [kind |-> "file_marker", path |-> path],
                                [kind |-> "content", text |-> file.content],
                                [kind |-> "end_marker", path |-> path] >>]

\* lines 362-367 and 424-429
MakeStats(files, a) ==
    [total_files_found |-> Len(files),
     processed_files |-> a.processed_files,
     skipped_files |-> a.skipped_files,
     total_lines |-> a.total_lines]

SynthInit ==
    /\ files_to_scan \in SeqsUpTo(Paths, MaxPaths)
    /\ fs \in [Paths -> FileStates]
    /\ synth \in {"virtual", "simplified"}
    /\ visited = 0
    /\ acc = EmptyAcc
    /\ stats = None
    /\ spc = "loop"
    /\ CompactorIdle
    /\ SeverityIdle
    /\ ParserIdle
    /\ WorkerIdle
    /\ RepoScanIdle
    /\ ScanIdle
    /\ FormatIdle

\* one pass through the body of `for file_path in files_to_scan`
SynthVisit ==
    /\ spc = "loop"
    /\ visited < Len(files_to_scan)
    /\ LET path == files_to_scan[visited + 1]
       IN acc' = IF synth = "virtual"
                 THEN VirtualDiffStep(acc, path, fs[path])
                 ELSE SimplifiedDiffStep(acc, path, fs[path])
    /\ visited' = visited + 1
    /\ UNCHANGED <<files_to_scan, fs, synth, stats, spc, compactorVars, severityVars, parserVars, workerVars, orchestrationVars>>

\* the loop is over: the statistics are built and returned
SynthReturn ==
    /\ spc = "loop"
    /\ visited = Len(files_to_scan)
    /\ stats' = Some(MakeStats(files_to_scan, acc))
    /\ spc' = "done"
    /\ UNCHANGED <<files_to_scan, fs, synth, visited, acc, compactorVars, severityVars, parserVars, workerVars, orchestrationVars>>

SynthNext == SynthVisit \/ SynthReturn

SpecSynth == SynthInit /\ [][SynthNext]_vars

\* C2: each path visited increments exactly one of the two counters, so
\* processed + skipped is the number of paths visited so far and, in the
\* returned statistics, equals total_files_found.
C2_CountersPartitionPaths ==
    /\ spc \in {"loop", "done"} => acc.processed_files + acc.skipped_files = visited
    /\ spc = "done" =>
         stats[1].processed_files + stats[1].skipped_files = stats[1].total_files_found

C2_Witness ==
    /\ spc = "done"
    /\ stats[1].total_files_found >= 3
    /\ stats[1].processed_files >= 1
    /\ stats[1].skipped_files >= 1
    /\ \E i, j \in 1..Len(files_to_scan) : i # j /\ files_to_scan[i] = files_to_scan[j]

\* what C9 calls a processed path: it exists, can be read, and is not blank
Processable(file) == file.exists /\ file.readable /\ Strip(file.content) # <<>>

RECURSIVE CountProcessable(_)
CountProcessable(files) ==
    IF files = <<>> THEN 0
    ELSE (IF Processable(fs[Head(files)]) THEN 1 ELSE 0) + CountProcessable(Tail(files))

RECURSIVE SumProcessableLines(_)
SumProcessableLines(files) ==
    IF files = <<>> THEN 0
    ELSE (IF Processable(fs[Head(files)])
          THEN Len(SplitLines(fs[Head(files)].content)) ELSE 0)
         + SumProcessableLines(Tail(files))

\* C9: create_virtual_diff counts a path as processed exactly when the file
\* exists, can be read and is not blank, counts every other path as skipped,
\* and total_lines is the sum of the line counts of the processed files.
C9_ProcessedExactlyReadableNonBlank ==
    (spc = "done" /\ synth = "virtual") =>
        /\ stats[1].processed_files = CountProcessable(files_to_scan)
        /\ stats[1].skipped_files = Len(files_to_scan) - CountProcessable(files_to_scan)
        /\ stats[1].total_lines = SumProcessableLines(files_to_scan)

\* an empty file, a 20-line file and a missing path: 1 processed, 2 skipped, 20 lines
C9_Witness ==
    /\ spc = "done" /\ synth = "virtual"
    /\ files_to_scan = <<"a.py", "b.py", "c.py">>
    /\ fs["a.py"] = [exists |-> TRUE, readable |-> TRUE, content |-> <<>>]
    /\ fs["b.py"] = [exists |-> TRUE, readable |-> TRUE, content |-> TwentyLines]
    /\ ~fs["c.py"].exists
    /\ stats[1] = [total_files_found |-> 3, processed_files |-> 1,
                   skipped_files |-> 2, total_lines |-> 20]


\* the loops of create_virtual_diff and of _create_simplified_diff over a
\* whole list of paths, for the file system fsys
RECURSIVE VirtualDiffOver(_, _, _)
VirtualDiffOver(files, fsys, a) ==
    IF files = <<>> THEN a
    ELSE VirtualDiffOver(Tail(files), fsys, VirtualDiffStep(a, Head(files), fsys[Head(files)]))

RECURSIVE SimplifiedDiffOver(_, _, _)
SimplifiedDiffOver(files, fsys, a) ==
    IF files = <<>> THEN a
    ELSE SimplifiedDiffOver(Tail(files), fsys,
                            SimplifiedDiffStep(a, Head(files), fsys[Head(files)]))

\* create_virtual_diff(files_to_scan) and _create_simplified_diff(files_to_scan):
\* the diff and the statistics
CreateVirtualDiff(files, fsys) ==
    [diff |-> VirtualDiffOver(files, fsys, EmptyAcc).diff,
     stats |-> MakeStats(files, VirtualDiffOver(files, fsys, EmptyAcc))]

CreateSimplifiedDiff(files, fsys) ==
    [diff |-> SimplifiedDiffOver(files, fsys, EmptyAcc).diff,
     stats |-> MakeStats(files, SimplifiedDiffOver(files, fsys, EmptyAcc))]

\* the three counters of an accumulator
Counters(a) == <<a.processed_files, a.skipped_files, a.total_lines>>

\* C17: for the same paths and the same file system, _create_simplified_diff
\* and create_virtual_diff classify every path alike (the counters agree
\* behind every path) and return the same statistics.
C17_FallbackStatisticsAgree ==
    /\ spc \in {"loop", "done"} =>
         LET seen == SubSeq(files_to_scan, 1, visited)
         IN Counters(acc)
              = Counters(IF synth = "virtual"
                         THEN SimplifiedDiffOver(seen, fs, EmptyAcc)
                         ELSE VirtualDiffOver(seen, fs, EmptyAcc))
    /\ spc = "done" =>
         stats[1] = (IF synth = "virtual"
                     THEN CreateSimplifiedDiff(files_to_scan, fs).stats
                     ELSE CreateVirtualDiff(files_to_scan, fs).stats)

\* the fallback went through a file of white space, a file of twenty lines
\* and a path that cannot be read
C17_Witness ==
    /\ spc = "done" /\ synth = "simplified"
    /\ files_to_scan = <<"a.py", "b.py", "c.py">>
    /\ fs["a.py"] = [exists |-> TRUE, readable |-> TRUE, content |-> <<" ", "\n">>]
    /\ fs["b.py"] = [exists |-> TRUE, readable |-> TRUE, content |-> TwentyLines]
    /\ fs["c.py"] = [exists |-> TRUE, readable |-> FALSE, content |-> <<>>]
    /\ stats[1] = [total_files_found |-> 3, processed_files |-> 1,
                   skipped_files |-> 2, total_lines |-> 20]

(***************************************************************************)
(* Severity classifier                                                     *)
(***************************************************************************)
Severities == {"CRITICAL", "HIGH", "MEDIUM", "LOW"}

\* Critical > High > Medium > Low
SeverityRank(s) ==
    CASE s = "CRITICAL" -> 3 [] s = "HIGH" -> 2 [] s = "MEDIUM" -> 1 [] s = "LOW" -> 0

Categories ==
    {"FUNCTIONALITY", "ROBUSTNESS", "TESTS", "DESIGN", "ABSTRACTIONS",
     "CONSISTENCY", "READABILITY", "CODING_STYLE", "NAMING"}

\* SeverityLevel(severity_str): the member whose value is severity_str; a
\* value of no member raises ValueError (None here)
SeverityLevelOf(severity_str) ==
    CASE severity_str = <<"C", "r", "i", "t", "i", "c", "a", "l">> -> Some("CRITICAL")
      [] severity_str = <<"H", "i", "g", "h">> -> Some("HIGH")
      [] severity_str = <<"M", "e", "d", "i", "u", "m">> -> Some("MEDIUM")
      [] severity_str = <<"L", "o", "w">> -> Some("LOW")
      [] OTHER -> None

\* _get_default_severity_for_category
DefaultSeverityForCategory(cat) ==
    CASE cat = "FUNCTIONALITY" -> "CRITICAL"
      [] cat \in {"ROBUSTNESS", "TESTS", "DESIGN"} -> "HIGH"
      [] cat \in {"ABSTRACTIONS", "CONSISTENCY"} -> "MEDIUM"
      [] cat \in {"READABILITY", "CODING_STYLE", "NAMING"} -> "LOW"
      [] OTHER -> "MEDIUM"

critical_keywords == <<
      <<"s", "e", "c", "u", "r", "i", "t", "y">>,
      <<"v", "u", "l", "n", "e", "r", "a", "b", "i", "l", "i", "t", "y">>,
      <<"s", "q", "l", " ", "i", "n", "j", "e", "c", "t", "i", "o", "n">>,
      <<"x", "s", "s">>, <<"c", "s", "r", "f">>,
      <<"m", "e", "m", "o", "r", "y", " ", "l", "e", "a", "k">>,
      <<"n", "u", "l", "l", " ", "p", "o", "i", "n", "t", "e", "r">>,
      <<"c", "r", "a", "s", "h">>, <<"d", "a", "t", "a", " ", "l", "o", "s", "s">>,
      <<"c", "o", "r", "r", "u", "p", "t", "i", "o", "n">> >>

high_keywords == <<
      <<"p", "e", "r", "f", "o", "r", "m", "a", "n", "c", "e">>,
      <<"b", "o", "t", "t", "l", "e", "n", "e", "c", "k">>, <<"s", "l", "o", "w">>,
      <<"i", "n", "e", "f", "f", "i", "c", "i", "e", "n", "t">>,
      <<"r", "e", "s", "o", "u", "r", "c", "e", " ", "l", "e", "a", "k">>,
      <<"m", "i", "s", "s", "i", "n", "g", " ", "e", "r", "r", "o", "r", " ", "h", "a", "n", "d", "l", "i", "n", "g">>,
      <<"e", "x", "c", "e", "p", "t", "i", "o", "n", " ", "n", "o", "t", " ", "h", "a", "n", "d", "l", "e", "d">>,
      <<"m", "a", "j", "o", "r", " ", "d", "e", "s", "i", "g", "n", " ", "f", "l", "a", "w">> >>

low_keywords == <<
      <<"v", "a", "r", "i", "a", "b", "l", "e", " ", "n", "a", "m", "e">>,
      <<"m", "e", "t", "h", "o", "d", " ", "n", "a", "m", "e">>,
      <<"r", "e", "n", "a", "m", "e">>,
      <<"m", "o", "r", "e", " ", "d", "e", "s", "c", "r", "i", "p", "t", "i", "v", "e">>,
      <<"c", "o", "n", "s", "i", "d", "e", "r", " ", "r", "e", "n", "a", "m", "i", "n", "g">>,
      <<"c", "o", "s", "m", "e", "t", "i", "c">>, <<"m", "i", "n", "o", "r">>,
      <<"s", "u", "g", "g", "e", "s", "t", "i", "o", "n">> >>

\* Mutant: the high-priority keywords are looked for before the critical ones
AdjustSeverity_HighFirst(cat, text, default_severity) ==
    LET comment_lower == Lower(text)
    IN IF ContainsAny(comment_lower, high_keywords) THEN "HIGH"
       ELSE IF ContainsAny(comment_lower, critical_keywords) THEN "CRITICAL"
       ELSE IF cat \in {"NAMING", "READABILITY"}
            THEN IF ContainsAny(comment_lower, low_keywords) THEN "LOW"
                 ELSE IF default_severity = "HIGH" THEN "MEDIUM"
                 ELSE default_severity
       ELSE default_severity

\* Mutant: a HIGH severity is capped to MEDIUM for every category
AdjustSeverity_CapEveryCategory(cat, text, default_severity) ==
    LET comment_lower == Lower(text)
    IN IF ContainsAny(comment_lower, critical_keywords) THEN "CRITICAL"
       ELSE IF ContainsAny(comment_lower, high_keywords) THEN "HIGH"
       ELSE IF cat \in {"NAMING", "READABILITY"} /\ ContainsAny(comment_lower, low_keywords)
            THEN "LOW"
       ELSE IF default_severity = "HIGH" THEN "MEDIUM"
       ELSE default_severity

\* _adjust_severity_based_on_content
AdjustSeverityBasedOnContent(cat, text, default_severity) ==
    LET comment_lower == Lower(text)
    IN IF ContainsAny(comment_lower, critical_keywords) THEN "CRITICAL"
       ELSE IF ContainsAny(comment_lower, high_keywords) THEN "HIGH"
       ELSE IF cat \in {"NAMING", "READABILITY"}
            THEN IF ContainsAny(comment_lower, low_keywords) THEN "LOW"
                 ELSE IF default_severity = "HIGH" THEN "MEDIUM"
                 ELSE default_severity
       ELSE default_severity

\* parse_comment, lines 187-203: the severity of a parsed element, whose
\* "severity" key is absent (None) or holds a JSON value
ElementSeverity(cat, elem_severity, text) ==
    LET member == IF elem_severity # None /\ elem_severity[1].t = "str"
                  THEN SeverityLevelOf(elem_severity[1].s) ELSE None
        start == IF elem_severity # None
                 THEN (IF member # None THEN member[1] ELSE "MEDIUM")
                 ELSE DefaultSeverityForCategory(cat)
    IN AdjustSeverityBasedOnContent(cat, text, start)

\* Bound: the number of words of a classified comment text
MaxTextWords == 3

TextWords == { <<"S", "Q", "L">>, <<"i", "n", "j", "e", "c", "t", "i", "o", "n">>, <<"s", "l", "o", "w">>, <<"m", "i", "n", "o", "r">>, <<"o", "k">> }

CommentTexts == { JoinWith(ws, <<" ">>) : ws \in SeqsUpTo(TextWords, MaxTextWords) }

\* the values an element's "severity" key may hold
ElementSeverities ==
    { None, Some(JStr(<<"C", "r", "i", "t", "i", "c", "a", "l">>)), Some(JStr(<<"H", "i", "g", "h">>)), Some(JStr(<<"M", "e", "d", "i", "u", "m">>)),
      Some(JStr(<<"L", "o", "w">>)), Some(JStr(<<"u", "r", "g", "e", "n", "t">>)) }

SeveritySources ==
    { [from |-> "given", severity |-> s] : s \in Severities }
    \cup { [from |-> "category_default"] }
    \cup { [from |-> "element", value |-> e] : e \in ElementSeverities }

SeverityInit ==
    /\ category \in Categories
    /\ comment_text \in CommentTexts
    /\ sev_source \in SeveritySources
    /\ severity = None
    /\ vpc = "start"
    /\ CompactorIdle
    /\ SynthIdle
    /\ ParserIdle
    /\ WorkerIdle
    /\ RepoScanIdle
    /\ ScanIdle
    /\ FormatIdle

\* _adjust_severity_based_on_content called with a severity of the caller's
AdjustGiven ==
    /\ vpc = "start"
    /\ sev_source.from = "given"
    /\ severity' = Some(AdjustSeverityBasedOnContent(category, comment_text,
                                                      sev_source.severity))
    /\ vpc' = "done"
    /\ UNCHANGED <<category, comment_text, sev_source, compactorVars, synthVars, parserVars, workerVars, orchestrationVars>>

\* ... called with the category default
AdjustDefault ==
    /\ vpc = "start"
    /\ sev_source.from = "category_default"
    /\ severity' = Some(AdjustSeverityBasedOnContent(category, comment_text,
                                        DefaultSeverityForCategory(category)))
    /\ vpc' = "done"
    /\ UNCHANGED <<category, comment_text, sev_source, compactorVars, synthVars, parserVars, workerVars, orchestrationVars>>

\* the severity stage of parse_comment for one element
ClassifyElement ==
    /\ vpc = "start"
    /\ sev_source.from = "element"
    /\ severity' = Some(ElementSeverity(category, sev_source.value, comment_text))
    /\ vpc' = "done"
    /\ UNCHANGED <<category, comment_text, sev_source, compactorVars, synthVars, parserVars, workerVars, orchestrationVars>>

SeverityNext == AdjustGiven \/ AdjustDefault \/ ClassifyElement

SpecSeverity == SeverityInit /\ [][SeverityNext]_vars

HasCritical(text) == ContainsAny(Lower(text), critical_keywords)
HasHigh(text) == ContainsAny(Lower(text), high_keywords)
HasLow(text) == ContainsAny(Lower(text), low_keywords)

\* C7: a comment text that contains "sql injection" in any letter case is
\* classified CRITICAL for every category and every starting severity, also
\* when high- or low-priority keywords occur in it too.
C7_SqlInjectionIsCritical ==
    (vpc = "done" /\ Contains(Lower(comment_text), <<"s", "q", "l", " ", "i", "n", "j", "e", "c", "t", "i", "o", "n">>))
        => severity = Some("CRITICAL")

C7_Witness ==
    /\ vpc = "done"
    /\ comment_text = <<"m", "i", "n", "o", "r", " ", "S", "Q", "L", " ", "i", "n", "j", "e", "c", "t", "i", "o", "n">>
    /\ category = "NAMING"
    /\ sev_source = [from |-> "category_default"]
    /\ severity = Some("CRITICAL")

\* C8: for a category whose default severity is LOW (READABILITY,
\* CODING_STYLE, NAMING) an element whose text holds no override keyword
\* never gets a severity above MEDIUM, whatever severity it carried.
C8_StyleNeverAboveMedium ==
    (/\ vpc = "done"
     /\ sev_source.from = "element"
     /\ DefaultSeverityForCategory(category) = "LOW"
     /\ comment_text # <<>>
     /\ ~HasCritical(comment_text) /\ ~HasHigh(comment_text) /\ ~HasLow(comment_text))
        => SeverityRank(severity[1]) <= SeverityRank("MEDIUM")

\* the severity handed to _adjust_severity_based_on_content: the caller's,
\* the category default, or the one parse_comment made of the element's
\* "severity" key (lines 187-203)
GivenSeverity ==
    CASE sev_source.from = "given" -> sev_source.severity
      [] sev_source.from = "category_default" -> DefaultSeverityForCategory(category)
      [] sev_source.from = "element" ->
           IF sev_source.value = None THEN DefaultSeverityForCategory(category)
           ELSE IF sev_source.value[1].t = "str"
                   /\ SeverityLevelOf(sev_source.value[1].s) # None
                THEN SeverityLevelOf(sev_source.value[1].s)[1]
                ELSE "MEDIUM"

\* C29 (as stated): for a category other than NAMING and READABILITY the
\* severity returned is at least as severe as the severity given, for every
\* comment text.
C29_OverrideNeverLowers ==
    (vpc = "done" /\ category \notin {"NAMING", "READABILITY"})
        => SeverityRank(severity[1]) >= SeverityRank(GivenSeverity)

\* C29 (amended): for a category other than NAMING and READABILITY the
\* severity returned is CRITICAL when the text holds a critical keyword,
\* else HIGH when it holds a high-priority keyword, else the severity given;
\* so it is lower than the severity given in one case only: CRITICAL was
\* given and the text holds a high-priority keyword and no critical one.
C29_OverrideLowersOnlyCriticalToHigh ==
    (vpc = "done" /\ category \notin {"NAMING", "READABILITY"})
        => /\ severity[1] = (IF HasCritical(comment_text) THEN "CRITICAL"
                             ELSE IF HasHigh(comment_text) THEN "HIGH"
                             ELSE GivenSeverity)
           /\ SeverityRank(severity[1]) < SeverityRank(GivenSeverity)
                => /\ GivenSeverity = "CRITICAL"
                   /\ severity[1] = "HIGH"
                   /\ HasHigh(comment_text) /\ ~HasCritical(comment_text)

\* the CRITICAL default of FUNCTIONALITY became HIGH for the text "slow"
C29_Witness ==
    /\ vpc = "done"
    /\ category = "FUNCTIONALITY"
    /\ sev_source = [from |-> "category_default"]
    /\ comment_text = <<"s", "l", "o", "w">>
    /\ severity = Some("HIGH")

(***************************************************************************)
(* Response parser                                                         *)
(***************************************************************************)
\* the longest paragraph text, the longest summary and the most comments
\* the heuristic text extraction returns
ParagraphMaxChars == 500
SummaryMaxChars == 1000
MaxTextComments == 5

\* s[:n] + "..." if len(s) > n else s
Truncate(s, n) == IF Len(s) > n THEN SubSeq(s, 1, n) \o <<".", ".", ".">> ELSE s

\* CodeReviewComment(category=, file_name=, line_number=, comment=, severity=,
\* example_code=); a field left out is None
Comment(cat, file_name, line_number, text, sev, example_code) ==
    [category |-> cat, file_name |-> file_name, line_number |-> line_number,
     comment |-> text, severity |-> sev, example_code |-> example_code]

\* key in d, for a d that is no integer: a key of an object, a substring of
\* a string, an element of a list
HasKey(d, k) ==
    CASE d.t = "obj" -> \E p \in 1..Len(d.keys) : d.keys[p] = k
      [] d.t = "str" -> Contains(d.s, k)
      [] d.t = "arr" -> \E p \in 1..Len(d.items) : d.items[p] = JStr(k)
      [] OTHER -> FALSE

\* d[k] of an object that has the key
Get(d, k) == d.vals[CHOOSE p \in 1..Len(d.keys) : d.keys[p] = k]

\* str(n) of a non-negative integer
RECURSIVE IntToChars(_)
IntToChars(n) ==
    IF n < 0 THEN <<"-">> \o IntToChars(-n)
    ELSE IF n < 10 THEN <<Digits[n + 1]>> ELSE IntToChars(n \div 10) \o <<Digits[(n % 10) + 1]>>

\* repr(v): a string in single quotes (in double quotes when it holds a
\* single quote), a list and a dict with ", " between their entries
RECURSIVE Repr(_), ReprItems(_, _), ReprMembers(_, _, _)
Repr(v) ==
    CASE v.t = "str" -> LET q == IF \E p \in 1..Len(v.s) : v.s[p] = "'" THEN "\"" ELSE "'"
                        IN <<q>> \o v.s \o <<q>>
      [] v.t = "int" -> IntToChars(v.n)
      [] v.t = "arr" -> <<"[">> \o ReprItems(v.items, 1) \o <<"]">>
      [] v.t = "obj" -> <<"{">> \o ReprMembers(v.keys, v.vals, 1) \o <<"}">>

ReprItems(items, p) ==
    IF p > Len(items) THEN <<>>
    ELSE (IF p > 1 THEN <<",", " ">> ELSE <<>>) \o Repr(items[p]) \o ReprItems(items, p + 1)

ReprMembers(keys, vals, p) ==
    IF p > Len(keys) THEN <<>>
    ELSE (IF p > 1 THEN <<",", " ">> ELSE <<>>) \o Repr(JStr(keys[p])) \o <<":", " ">>
         \o Repr(vals[p]) \o ReprMembers(keys, vals, p + 1)

\* a value inside an f-string: str(v)
FormatValue(v) == IF v.t = "str" THEN v.s ELSE Repr(v)

\* bool(v)
Truthy(v) ==
    CASE v.t = "str" -> v.s # <<>>
      [] v.t = "int" -> v.n # 0
      [] v.t = "arr" -> v.items # <<>>
      [] v.t = "obj" -> v.keys # <<>>

RECURSIVE DigitsToInt(_, _)
DigitsToInt(s, n) ==
    IF s = <<>> THEN n ELSE DigitsToInt(Tail(s), 10 * n + DigitVal(Head(s)))

\* int(v): Some(n), or None for the ValueError or TypeError that is caught
IntOf(v) ==
    CASE v.t = "int" -> Some(v.n)
      [] v.t = "str" ->
            \* white space around, one sign, digits
            LET t == Strip(v.s)
                signed == t # <<>> /\ t[1] \in {"+", "-"}
                d == IF signed THEN Tail(t) ELSE t
            IN IF d # <<>> /\ \A p \in 1..Len(d) : IsDigit(d[p])
               THEN Some(IF signed /\ t[1] = "-" THEN -DigitsToInt(d, 0)
                         ELSE DigitsToInt(d, 0))
               ELSE None
      [] OTHER -> None

CommentKeys == <<
      <<"c", "o", "m", "m", "e", "n", "t">>, <<"i", "s", "s", "u", "e">>,
      <<"d", "e", "s", "c", "r", "i", "p", "t", "i", "o", "n">>,
      <<"p", "r", "o", "b", "l", "e", "m">>, <<"m", "e", "s", "s", "a", "g", "e">> >>

K_comment == <<"c", "o", "m", "m", "e", "n", "t">>
K_issue == <<"i", "s", "s", "u", "e">>
K_suggestion == <<"s", "u", "g", "g", "e", "s", "t", "i", "o", "n">>
K_description == <<"d", "e", "s", "c", "r", "i", "p", "t", "i", "o", "n">>
K_improvement == <<"i", "m", "p", "r", "o", "v", "e", "m", "e", "n", "t">>
K_problem == <<"p", "r", "o", "b", "l", "e", "m">>
K_message == <<"m", "e", "s", "s", "a", "g", "e">>

\* lines 137-156: Some(comment_text value), None when no key is found
ResolveCommentText(d) ==
    IF HasKey(d, K_comment) THEN Some(Get(d, K_comment))
    ELSE IF HasKey(d, K_issue) /\ HasKey(d, K_suggestion)
         THEN Some(JStr(FormatValue(Get(d, K_issue)) \o <<" ">>
                        \o FormatValue(Get(d, K_suggestion))))
    ELSE IF HasKey(d, K_description) /\ HasKey(d, K_improvement)
         THEN Some(JStr(FormatValue(Get(d, K_description)) \o <<" ">>
                        \o FormatValue(Get(d, K_improvement))))
    ELSE IF HasKey(d, K_issue) THEN Some(Get(d, K_issue))
    ELSE IF HasKey(d, K_description) THEN Some(Get(d, K_description))
    ELSE IF HasKey(d, K_problem) THEN Some(Get(d, K_problem))
    ELSE IF HasKey(d, K_message) THEN Some(Get(d, K_message))
    ELSE None

\* the first of the keys that d has, as Some(d[key]), else None
RECURSIVE FirstOf(_, _)
FirstOf(d, keys) ==
    IF keys = <<>> THEN None
    ELSE IF HasKey(d, Head(keys)) THEN Some(Get(d, Head(keys)))
    ELSE FirstOf(d, Tail(keys))

FileKeys == <<
      <<"f", "i", "l", "e", "_", "n", "a", "m", "e">>, <<"f", "i", "l", "e">>,
      <<"f", "i", "l", "e", "n", "a", "m", "e">> >>
LineKeys == <<
      <<"l", "i", "n", "e", "_", "n", "u", "m", "b", "e", "r">>, <<"l", "i", "n", "e">> >>
ExampleKeys == <<
      <<"e", "x", "a", "m", "p", "l", "e", "_", "c", "o", "d", "e">>,
      <<"e", "x", "a", "m", "p", "l", "e">>,
      <<"s", "u", "g", "g", "e", "s", "t", "e", "d", "_", "c", "o", "d", "e">> >>
K_severity == <<"s", "e", "v", "e", "r", "i", "t", "y">>

Raised == [kind |-> "raise"]
Dropped == [kind |-> "none"]
Parsed(c) == [kind |-> "comment", c |-> c]

\* Mutant: the file path is looked up under "file_name" only
ParseComment_FileNameKeyOnly(cat, d) ==
    IF d.t # "obj" THEN Raised
    ELSE LET text == ResolveCommentText(d)
             file == FirstOf(d, <<Head(FileKeys)>>)
             raw_line == FirstOf(d, LineKeys)
         IN IF text = None \/ file = None
            THEN Dropped
            ELSE IF text[1].t # "str" \/ file[1].t # "str" THEN Raised
            ELSE IF text[1].s = <<>> \/ file[1].s = <<>> THEN Dropped
            ELSE Parsed(Comment(cat, Some(file[1].s),
                                IF raw_line = None THEN None ELSE IntOf(raw_line[1]),
                                text[1].s,
                                ElementSeverity(cat, FirstOf(d, <<K_severity>>), text[1].s),
                                FirstOf(d, ExampleKeys)))

\* parse_comment(comment_data): a Comment, None (the element is dropped) or
\* an exception
ParseComment(cat, d) ==
    IF d.t = "int" THEN Raised               \* "comment" in 5: TypeError
    ELSE IF d.t # "obj"
         THEN \* a string or a list: the first test that holds is followed by
              \* d["comment"], a TypeError
              IF \E p \in 1..Len(CommentKeys) : HasKey(d, CommentKeys[p])
              THEN Raised ELSE Dropped
    ELSE LET text == ResolveCommentText(d)
             file == FirstOf(d, FileKeys)
             raw_line == FirstOf(d, LineKeys)
             file_name ==
                 IF file # None /\ file[1].t = "str" /\ StartsWith(file[1].s, <<"b", "/">>)
                 THEN Some(JStr(From(file[1].s, 3))) ELSE file
             line_number == IF raw_line = None THEN None ELSE IntOf(raw_line[1])
         IN IF text = None THEN Dropped
            \* file_name.startswith of a value that is no string
            ELSE IF file # None /\ Truthy(file[1]) /\ file[1].t # "str" THEN Raised
            \* comment_text.lower() of a value that is no string
            ELSE IF text[1].t # "str" THEN Raised
            ELSE IF text[1].s = <<>> \/ file_name = None \/ ~Truthy(file_name[1])
                 THEN Dropped
            ELSE Parsed(Comment(cat, Some(file_name[1].s), line_number, text[1].s,
                                ElementSeverity(cat, FirstOf(d, <<K_severity>>), text[1].s),
                                FirstOf(d, ExampleKeys)))

review_keywords == <<
      <<"l", "i", "n", "e">>, <<"u884c">>, <<"f", "i", "l", "e">>, <<"u6587", "u4ef6">>,
      <<"f", "u", "n", "c", "t", "i", "o", "n">>, <<"u51fd", "u6570">>,
      <<"e", "r", "r", "o", "r">>, <<"u9519", "u8bef">>, <<"i", "s", "s", "u", "e">>,
      <<"u95ee", "u9898">>, <<"w", "a", "r", "n", "i", "n", "g">>, <<"u8b66", "u544a">>,
      <<"s", "e", "c", "u", "r", "i", "t", "y">>, <<"u5b89", "u5168">>,
      <<"b", "u", "g">>, <<"p", "e", "r", "f", "o", "r", "m", "a", "n", "c", "e">>,
      <<"u6027", "u80fd">> >>

text_high_words == <<
      <<"c", "r", "i", "t", "i", "c", "a", "l">>, <<"u4e25", "u91cd">>,
      <<"h", "i", "g", "h">>, <<"u9ad8">>, <<"s", "e", "c", "u", "r", "i", "t", "y">>,
      <<"u5b89", "u5168">> >>

text_low_words == <<
      <<"l", "o", "w">>, <<"u4f4e">>, <<"m", "i", "n", "o", "r">>, <<"u8f7b", "u5fae">>,
      <<"s", "u", "g", "g", "e", "s", "t", "i", "o", "n">>, <<"u5efa", "u8bae">> >>

summary_high_words == <<
      <<"e", "r", "r", "o", "r">>, <<"c", "r", "i", "t", "i", "c", "a", "l">>,
      <<"s", "e", "c", "u", "r", "i", "t", "y">>,
      <<"v", "u", "l", "n", "e", "r", "a", "b", "i", "l", "i", "t", "y">>,
      <<"u9519", "u8bef">>, <<"u4e25", "u91cd">>, <<"u5b89", "u5168">>,
      <<"u6f0f", "u6d1e">> >>

summary_medium_words == <<
      <<"w", "a", "r", "n", "i", "n", "g">>, <<"i", "s", "s", "u", "e">>,
      <<"p", "r", "o", "b", "l", "e", "m">>, <<"c", "o", "n", "c", "e", "r", "n">>,
      <<"u8b66", "u544a">>, <<"u95ee", "u9898">>, <<"u5173", "u6ce8">> >>

\* lines 323-327
ParagraphSeverity(paragraph) ==
    IF ContainsAny(Lower(paragraph), text_high_words) THEN "HIGH"
    ELSE IF ContainsAny(Lower(paragraph), text_low_words) THEN "LOW"
    ELSE "MEDIUM"

\* the loop of lines 315-338 over the paragraphs still to look at
RECURSIVE TextComments(_, _)
TextComments(cat, paragraphs) ==
    IF paragraphs = <<>> THEN <<>>
    ELSE LET paragraph == Strip(Head(paragraphs))
         IN (IF paragraph # <<>> /\ ContainsAny(Lower(paragraph), review_keywords)
             THEN <<Comment(cat, None, None, Truncate(paragraph, ParagraphMaxChars),
                            ParagraphSeverity(paragraph), None)>>
             ELSE <<>>)
            \o TextComments(cat, Tail(paragraphs))

\* Mutant: the paragraphs that speak of security are not kept
ParseTextResponse_NoSecurityKeyword(cat, response_content) ==
    LET kept == SelectSeq(SplitParagraphs(response_content),
                          LAMBDA p : ~Contains(Lower(p), <<"s", "e", "c", "u", "r", "i", "t", "y">>))
    IN PySliceTo(TextComments(cat, kept), MaxTextComments)

\* _parse_text_response
ParseTextResponse(cat, response_content) ==
    PySliceTo(TextComments(cat, SplitParagraphs(response_content)), MaxTextComments)

\* self.category.value
CategoryValue(cat) == <<cat>>

\* _create_summary_comment
CreateSummaryComment(cat, response_content) ==
    LET summary == Truncate(response_content, SummaryMaxChars)
        sev == IF ContainsAny(Lower(response_content), summary_high_words) THEN "HIGH"
               ELSE IF ContainsAny(Lower(response_content), summary_medium_words)
                    THEN "MEDIUM"
               ELSE "LOW"
    IN Comment(cat, None, None,
               CategoryValue(cat) \o <<" ", "u5ba1", "u67e5", "u6458", "u8981", ":", " ">> \o summary, sev, None)

\* isinstance(parsed, list) and len(parsed) == 0
IsEmptyList(v) == v.t = "arr" /\ v.items = <<>>

\* Mutant: only the array with its white space removed is recognised
IsEmptyJsonArray_BareOnly(response_str) ==
    \/ Strip(response_str) = <<>>
    \/ RemoveSpace(Strip(response_str)) = <<"[", "]">>

\* lines 395-400 and 406-410: json.loads gave an empty list
LoadedEmptyList(loaded) == loaded # None /\ IsEmptyList(loaded[1])

\* lines 402-410: the text holds exactly one bracketed stretch, an empty list
SingleArrayIsEmpty(json_arrays) ==
    Len(json_arrays) = 1 /\ LoadedEmptyList(JsonLoads(json_arrays[1]))

\* lines 394-412: what json.loads of the whole text decides, else the
\* bracketed stretches
EmptyAfterWholeParse(response_str, whole) ==
    IF whole # None THEN IsEmptyList(whole[1])
    ELSE SingleArrayIsEmpty(FindAllArrays(response_str, 1))

\* lines 373-412, s being response_str.strip()
EmptyJsonArrayOfStripped(response_str, s) ==
    IF response_str = <<>> \/ s = <<>> THEN TRUE
    ELSE IF RemoveSpace(s) = <<"[", "]">> THEN TRUE
    ELSE IF MatchFencedEmptyArray(s) \/ MatchBacktickEmptyArray(s) THEN TRUE
    ELSE EmptyAfterWholeParse(response_str, JsonLoads(s))

\* _is_empty_json_array
IsEmptyJsonArray(response_str) == EmptyJsonArrayOfStripped(response_str, Strip(response_str))

\* str(e) of the RecursionError of json.loads
RecursionErrorText == <<"m", "a", "x", "i", "m", "u", "m", " ", "r", "e", "c", "u", "r", "s", "i", "o", "n", " ", "d", "e", "p", "t", "h", " ", "e", "x", "c", "e", "e", "d", "e", "d", " ", "w", "h", "i", "l", "e", " ", "d", "e", "c", "o", "d", "i", "n", "g", " ", "a", " ", "J", "S", "O", "N", " ", "a", "r", "r", "a", "y", " ", "f", "r", "o", "m", " ", "a", " ", "u", "n", "i", "c", "o", "d", "e", " ", "s", "t", "r", "i", "n", "g">>

\* lines 403-410: the one bracketed stretch is nested too deep
SingleArrayTooDeep(json_arrays) ==
    Len(json_arrays) = 1 /\ JsonLoadsTooDeep(json_arrays[1])

\* lines 394-410: the handlers catch json.JSONDecodeError and ValueError; the
\* RecursionError of json.loads is neither and leaves _is_empty_json_array
EmptyJsonArrayRaisesOfStripped(response_str, s) ==
    IF response_str = <<>> \/ s = <<>> THEN FALSE
    ELSE IF RemoveSpace(s) = <<"[", "]">> THEN FALSE
    ELSE IF MatchFencedEmptyArray(s) \/ MatchBacktickEmptyArray(s) THEN FALSE
    ELSE IF JsonLoadsTooDeep(s) THEN TRUE
    ELSE JsonLoads(s) = None /\ SingleArrayTooDeep(FindAllArrays(response_str, 1))

IsEmptyJsonArrayRaises(response_str) ==
    EmptyJsonArrayRaisesOfStripped(response_str, Strip(response_str))

\* the values "for item in comments_data" goes through: the elements of a
\* list, the keys of an object, the characters of a string; an integer is
\* not iterable (None)
ItemsOf(v) ==
    CASE v.t = "arr" -> Some(v.items)
      [] v.t = "obj" -> Some([p \in 1..Len(v.keys) |-> JStr(v.keys[p])])
      [] v.t = "str" -> Some([p \in 1..Len(v.s) |-> JStr(<<v.s[p]>>)])
      [] OTHER -> None

\* the results of parse_comment for the items in order, up to the first
\* one that raises
RECURSIVE ParseItemsInOrder(_, _)
ParseItemsInOrder(cat, items) ==
    IF items = <<>> THEN <<>>
    ELSE LET r == ParseComment(cat, Head(items))
         IN IF r.kind = "raise" THEN <<r>>
            ELSE <<r>> \o ParseItemsInOrder(cat, Tail(items))

\* Mutant: the strict extraction returns its list when nothing was kept too
CommentsKept_EmptyReturned(results) ==
    LET kept == SelectSeq(results, LAMBDA r : r.kind = "comment")
    IN IF \E p \in 1..Len(results) : results[p].kind = "raise" THEN None
       ELSE Some([p \in 1..Len(kept) |-> kept[p].c])

\* lines 262-276: the comments kept from the results of parse_comment; None
\* when an exception ended the loop or nothing was kept
CommentsKept(results) ==
    LET kept == SelectSeq(results, LAMBDA r : r.kind = "comment")
    IN IF \E p \in 1..Len(results) : results[p].kind = "raise" THEN None
       ELSE IF kept = <<>> THEN None
       ELSE Some([p \in 1..Len(kept) |-> kept[p].c])

\* lines 259-276, comments_data being what json.loads gave (None: it failed)
CommentsOfData(cat, comments_data) ==
    IF comments_data = None \/ ItemsOf(comments_data[1]) = None THEN None
    ELSE CommentsKept(ParseItemsInOrder(cat, ItemsOf(comments_data[1])[1]))

\* lines 254-257: json_str is the match when there is one, else the response
JsonStrOf(json_match, response_str) ==
    IF json_match # None THEN json_match[1] ELSE response_str

\* lines 253-278: Some(comments) when the strict extraction returns them,
\* None when it yields nothing or an exception ends it
StrictJson(cat, response_str) ==
    CommentsOfData(cat, JsonLoads(JsonStrOf(SearchArrayOfObjects(response_str),
                                            response_str)))

\* lines 233-239
EmptyResponseComment(cat) ==
    Comment(cat, None, None, <<"L", "L", "M", " ", "r", "e", "t", "u", "r", "n", "e", "d", " ", "e", "m", "p", "t", "y", " ", "r", "e", "s", "p", "o", "n", "s", "e", ".", " ", "P", "l", "e", "a", "s", "e", " ", "t", "r", "y", " ", "a", "g", "a", "i", "n", ".">>,
            "MEDIUM", None)

\* lines 281-293: the summary fallback when the free-text rule found nothing
TextOrSummary(cat, response_str, text) ==
    IF text # <<>>
    THEN [rule |-> "text", comments |-> text,
          tried |-> <<"explicit_empty", "strict_json", "text">>]
    ELSE [rule |-> "summary", comments |-> <<CreateSummaryComment(cat, response_str)>>,
          tried |-> <<"explicit_empty", "strict_json", "text", "summary">>]

\* Mutant: the free-text rule is consulted before the strict extraction
StrictOrLater_TextFirst(cat, response_str, strict) ==
    IF ParseTextResponse(cat, response_str) # <<>>
    THEN [rule |-> "text", comments |-> ParseTextResponse(cat, response_str),
          tried |-> <<"explicit_empty", "text">>]
    ELSE IF strict # None
    THEN [rule |-> "strict_json", comments |-> strict[1],
          tried |-> <<"explicit_empty", "text", "strict_json">>]
    ELSE [rule |-> "summary", comments |-> <<CreateSummaryComment(cat, response_str)>>,
          tried |-> <<"explicit_empty", "text", "strict_json", "summary">>]

\* lines 253-293: the free-text rule when the strict extraction gave nothing
StrictOrLater(cat, response_str, strict) ==
    IF strict # None
    THEN [rule |-> "strict_json", comments |-> strict[1],
          tried |-> <<"explicit_empty", "strict_json">>]
    ELSE TextOrSummary(cat, response_str, ParseTextResponse(cat, response_str))

\* lines 230-293, response_str being response.strip().  tried lists the rules
\* of the cascade that were executed, in order.  The exception that leaves
\* _is_empty_json_array (line 248 is outside every try) leaves
\* parse_llm_response too: rule "raised", no value returned.
Cascade(cat, response, response_str) ==
    IF response = <<>> \/ response_str = <<>>
    THEN [rule |-> "empty_response", comments |-> <<EmptyResponseComment(cat)>>,
          tried |-> <<>>]
    ELSE IF IsEmptyJsonArrayRaises(response_str)
    THEN [rule |-> "raised", comments |-> <<>>, tried |-> <<"explicit_empty">>,
          error |-> RecursionErrorText]
    ELSE IF IsEmptyJsonArray(response_str)
    THEN [rule |-> "explicit_empty", comments |-> <<>>, tried |-> <<"explicit_empty">>]
    ELSE StrictOrLater(cat, response_str, StrictJson(cat, response_str))

\* parse_llm_response: the comments, the rule of the cascade that returned
\* them, and the rules executed
ParseLlmResponse(cat, response) == Cascade(cat, response, Strip(response))

(***************************************************************************)
(* The texts a model writes, and parse_llm_response applied to them        *)
(***************************************************************************)
\* Bounds: the white space of a pad, the paragraphs of a prose response
MaxPad == 1
MaxParagraphs == 6

\* white space of at most MaxPad characters
Pads == SeqsUpTo({" ", "\n"}, MaxPad)

Fence == <<"u0060", "u0060", "u0060">>

\* an empty array: bare, in a code fence with or without a language tag, or
\* between two backticks
EmptyArrayOutputs ==
    { [kind |-> "empty_array", wrap |-> "bare", lead |-> l, inner |-> i, trail |-> r] :
        l \in Pads, i \in Pads, r \in Pads }
    \cup
    { [kind |-> "empty_array", wrap |-> "fence", lead |-> l, inner |-> i, trail |-> r,
       tag |-> g, gap |-> p] :
        l \in Pads, i \in Pads, r \in Pads,
        g \in { <<>>, <<"j", "s", "o", "n">>, <<"J", "S", "O", "N">> }, p \in { <<>>, <<"\n">> } }
    \cup
    { [kind |-> "empty_array", wrap |-> "backtick", lead |-> l, inner |-> i, trail |-> r] :
        l \in Pads, i \in Pads, r \in Pads }

EmptyArrayText(o) ==
    LET arr == <<"[">> \o o.inner \o <<"]">>
    IN o.lead
       \o (CASE o.wrap = "bare" -> arr
             [] o.wrap = "fence" -> Fence \o o.tag \o o.gap \o arr \o o.gap \o Fence
             [] o.wrap = "backtick" -> <<"u0060">> \o arr \o <<"u0060">>)
       \o o.trail

\* nothing, or white space only
BlankOutputs == { [kind |-> "blank", text |-> a \o b] : a \in Pads, b \in Pads }

\* json.dumps(v)
RECURSIVE DumpJson(_), DumpItems(_, _), DumpMembers(_, _, _)
DumpJson(v) ==
    CASE v.t = "str" -> <<"\"">> \o v.s \o <<"\"">>
      [] v.t = "int" -> IntToChars(v.n)
      [] v.t = "arr" -> <<"[">> \o DumpItems(v.items, 1) \o <<"]">>
      [] v.t = "obj" -> <<"{">> \o DumpMembers(v.keys, v.vals, 1) \o <<"}">>

DumpItems(items, p) ==
    IF p > Len(items) THEN <<>>
    ELSE (IF p > 1 THEN <<",", " ">> ELSE <<>>) \o DumpJson(items[p])
         \o DumpItems(items, p + 1)

DumpMembers(keys, vals, p) ==
    IF p > Len(keys) THEN <<>>
    ELSE (IF p > 1 THEN <<",", " ">> ELSE <<>>) \o DumpJson(JStr(keys[p])) \o <<":", " ">>
         \o DumpJson(vals[p]) \o DumpMembers(keys, vals, p + 1)

\* the fields an element can carry, each a <<key, value>> pair or absent
FileFields ==
    { None, Some(<<<<"f", "i", "l", "e">>, JStr(<<"a", ".", "p", "y">>)>>),
      Some(<<<<"f", "i", "l", "e", "_", "n", "a", "m", "e">>, JStr(<<"b", "/", "a", ".", "p", "y">>)>>) }
LineFields ==
    { Some(<<<<"l", "i", "n", "e">>, JInt(5)>>), Some(<<<<"l", "i", "n", "e", "_", "n", "u", "m", "b", "e", "r">>, JStr(<<"5">>)>>),
      Some(<<<<"l", "i", "n", "e">>, JStr(<<"x">>)>>) }
TextFields ==
    { None, Some(<<<<"c", "o", "m", "m", "e", "n", "t">>, JStr(<<"x">>)>>),
      Some(<<<<"m", "e", "s", "s", "a", "g", "e">>, JStr(<<"s", "q", "l", " ", "i", "n", "j", "e", "c", "t", "i", "o", "n">>)>>) }
SeverityFields ==
    { None } \cup { Some(<<<<"s", "e", "v", "e", "r", "i", "t", "y">>, JStr(s)>>) :
                      s \in { <<"H", "i", "g", "h">>, <<"C", "r", "i", "t", "i", "c", "a", "l">> } }

ElementOf(f, l, c, s) ==
    LET fields == f \o l \o c \o s
    IN JObj([p \in 1..Len(fields) |-> fields[p][1]], [p \in 1..Len(fields) |-> fields[p][2]])

Elements ==
    { ElementOf(f, l, c, s) :
        f \in FileFields, l \in LineFields, c \in TextFields, s \in SeverityFields }

\* {"file": "a.py", "line": 5, "comment": "x", "severity": "High"}
BaseElement ==
    JObj(<<<<"f", "i", "l", "e">>, <<"l", "i", "n", "e">>, <<"c", "o", "m", "m", "e", "n", "t">>, <<"s", "e", "v", "e", "r", "i", "t", "y">>>>,
         <<JStr(<<"a", ".", "p", "y">>), JInt(5), JStr(<<"x">>), JStr(<<"H", "i", "g", "h">>)>>)

\* one element: as a bare object, as the only element of an array, the array
\* in a code fence, the array behind some words
ElementOutputs ==
    { [kind |-> "element", wrap |-> w, element |-> e] :
        w \in {"object", "array", "fenced", "embedded"}, e \in Elements }

ElementText(o) ==
    LET obj == DumpJson(o.element)
        arr == <<"[">> \o obj \o <<"]">>
    IN CASE o.wrap = "object" -> obj
         [] o.wrap = "array" -> arr
         [] o.wrap = "fenced" -> Fence \o <<"j", "s", "o", "n">> \o <<"\n">> \o arr \o <<"\n">> \o Fence
         [] o.wrap = "embedded" -> <<"R", "e", "v", "i", "e", "w", ":", " ">> \o arr

\* prose: paragraphs with a blank line between them
ParagraphTexts == << <<"S", "e", "c", "u", "r", "i", "t", "y", " ", "h", "o", "l", "e">>, <<"m", "i", "n", "o", "r", " ", "f", "i", "l", "e">> >>

\* a paragraph that holds none of the keywords
PlainParagraph == <<"f", "i", "n", "e">>

\* up to MaxParagraphs paragraphs that hold a keyword, and possibly the plain
\* paragraph before or behind them
ProseOutputs ==
    { [kind |-> "prose", paragraphs |-> ps, plain |-> f] :
        ps \in SeqsUpTo(1..Len(ParagraphTexts), MaxParagraphs),
        f \in {"none", "before", "behind"} }
    \ { [kind |-> "prose", paragraphs |-> <<>>, plain |-> "none"] }

ProseText(o) ==
    JoinWith((IF o.plain = "before" THEN <<PlainParagraph>> ELSE <<>>)
             \o [p \in 1..Len(o.paragraphs) |-> ParagraphTexts[o.paragraphs[p]]]
             \o (IF o.plain = "behind" THEN <<PlainParagraph>> ELSE <<>>),
             <<"\n", "\n">>)

\* an array of two elements, each with or without a file and a text
PairElements ==
    { ElementOf(f, Some(<<<<"l", "i", "n", "e">>, JInt(5)>>), c, None) :
        f \in { None, Some(<<<<"f", "i", "l", "e">>, JStr(<<"a", ".", "p", "y">>)>>) },
        c \in { None, Some(<<<<"c", "o", "m", "m", "e", "n", "t">>, JStr(<<"x">>)>>) } }

PairOutputs ==
    { [kind |-> "pair", first |-> a, second |-> b] : a \in PairElements, b \in PairElements }

PairText(o) == DumpJson(JArr(<<o.first, o.second>>))

\* arrays nested to around the depth the decoder accepts, "[[[[1]]]]", bare
\* or behind a word
DeepOutputs ==
    { [kind |-> "deep", depth |-> d, lead |-> l] :
        d \in (MaxJsonDepth - 1)..(MaxJsonDepth + 1), l \in { <<>>, <<"x", " ">> } }

RECURSIVE Repeat(_, _)
Repeat(c, n) == IF n = 0 THEN <<>> ELSE <<c>> \o Repeat(c, n - 1)

DeepText(o) == o.lead \o Repeat("[", o.depth) \o <<"1">> \o Repeat("]", o.depth)

\* an array of one element, {"file": "a.py", "line": v, "comment": "x"}, for
\* line values that are no positive integer
LineValues == { JInt(0), JInt(-3), JStr(<<"-", "3">>), JStr(<<" ", "7", " ">>), JStr(<<"0">>) }

LineValueOutputs == { [kind |-> "line_value", value |-> v] : v \in LineValues }

LineValueText(o) ==
    DumpJson(JArr(<< JObj(<< <<"f", "i", "l", "e">>, <<"l", "i", "n", "e">>, <<"c", "o", "m", "m", "e", "n", "t">> >>,
                          << JStr(<<"a", ".", "p", "y">>), o.value, JStr(<<"x">>) >>) >>))

\* malformed JSON, JSON that is no array, arrays of elements that are no
\* objects, objects whose fields have the wrong type
OddJsonTexts ==
    { <<"5">>, <<"\"", "i", "s", "s", "u", "e", "\"">>, <<"{">>, <<"[", "5", "]">>, <<"[", "\"", "i", "s", "s", "u", "e", "\"", "]">>, <<"[", "[", "]", "]">>, <<"[", "{", "]">>,
      <<"{", "\"", "c", "o", "m", "m", "e", "n", "t", "\"", ":", " ", "\"", "x", "\"", "}">>,
      <<"[", "{", "\"", "c", "o", "m", "m", "e", "n", "t", "\"", ":", " ", "5", ",", " ", "\"", "f", "i", "l", "e", "\"", ":", " ", "\"", "a", ".", "p", "y", "\"", "}", "]">>,
      <<"[", "{", "\"", "c", "o", "m", "m", "e", "n", "t", "\"", ":", " ", "\"", "x", "\"", ",", " ", "\"", "f", "i", "l", "e", "\"", ":", " ", "5", "}", "]">> }

OddJsonOutputs == { [kind |-> "odd", text |-> t] : t \in OddJsonTexts }

LlmOutputs ==
    EmptyArrayOutputs \cup BlankOutputs \cup ElementOutputs \cup ProseOutputs
    \cup PairOutputs \cup DeepOutputs \cup OddJsonOutputs \cup LineValueOutputs

TextOf(o) ==
    CASE o.kind = "empty_array" -> EmptyArrayText(o)
      [] o.kind = "blank" -> o.text
      [] o.kind = "element" -> ElementText(o)
      [] o.kind = "prose" -> ProseText(o)
      [] o.kind = "pair" -> PairText(o)
      [] o.kind = "deep" -> DeepText(o)
      [] o.kind = "odd" -> o.text
      [] o.kind = "line_value" -> LineValueText(o)

ParserInit ==
    /\ llm_output \in LlmOutputs
    /\ llm_response = TextOf(llm_output)
    /\ parser_category \in Categories
    /\ parse_result = None
    /\ ppc = "start"
    /\ CompactorIdle
    /\ SynthIdle
    /\ SeverityIdle
    /\ WorkerIdle
    /\ RepoScanIdle
    /\ ScanIdle
    /\ FormatIdle

\* comments = worker.parse_llm_response(response)
ParseResponse ==
    /\ ppc = "start"
    /\ parse_result' = Some(ParseLlmResponse(parser_category, llm_response))
    /\ ppc' = "done"
    /\ UNCHANGED <<llm_output, llm_response, parser_category,
                   compactorVars, synthVars, severityVars, workerVars, orchestrationVars>>

ParserNext == ParseResponse

SpecParser == ParserInit /\ [][ParserNext]_vars

\* the comments the parser returned
Returned == parse_result[1].comments

\* C3: a response that is an empty array (bare with any white space inside
\* or around it, in a code fence, or between backticks) is answered by the
\* explicit-empty rule with an empty list of comments; no later rule of the
\* cascade runs and no error or summary comment is made.
C3_EmptyArrayYieldsNoComments ==
    (ppc = "done" /\ llm_output.kind = "empty_array")
        => /\ parse_result[1].rule = "explicit_empty"
           /\ Returned = <<>>

C3_Witness ==
    /\ ppc = "done"
    /\ llm_output.kind = "empty_array"
    /\ llm_output.wrap = "fence"
    /\ llm_output.inner # <<>>
    /\ llm_output.lead # <<>>
    /\ Returned = <<>>

\* C4: a response that is empty or holds white space only yields an empty
\* list of comments, not a list with a synthesized comment.
C4_BlankYieldsNoComments ==
    (ppc = "done" /\ llm_output.kind = "blank") => Returned = <<>>

\* C5 as stated: for every category the single object
\* {file: "a.py", line: 5, comment: "x", severity: "High"} as the whole
\* response is parsed into exactly one comment a.py / 5 / "x" / HIGH.
C5_SingleObjectRoundTrips ==
    (ppc = "done" /\ llm_output.kind = "element" /\ llm_output.wrap = "object"
        /\ llm_output.element = BaseElement)
        => Returned = <<Comment(parser_category, Some(<<"a", ".", "p", "y">>), Some(5), <<"x">>,
                                "HIGH", None)>>

\* C5 amended: when that object is the only element of a JSON array (bare,
\* fenced or behind some words) the strict extraction returns exactly one
\* comment with file "a.py", line 5 and text "x"; its severity is HIGH for
\* every category that is not style-oriented and MEDIUM for NAMING and
\* READABILITY.  The object alone, outside an array, is not extracted: the
\* free-text rule returns one comment without file and line.
C5_ArrayElementRoundTrips ==
    (ppc = "done" /\ llm_output.kind = "element" /\ llm_output.element = BaseElement)
        => /\ Len(Returned) = 1
           /\ IF llm_output.wrap = "object"
              THEN /\ parse_result[1].rule = "text"
                   /\ Returned[1].file_name = None
                   /\ Returned[1].line_number = None
              ELSE /\ parse_result[1].rule = "strict_json"
                   /\ Returned[1].file_name = Some(<<"a", ".", "p", "y">>)
                   /\ Returned[1].line_number = Some(5)
                   /\ Returned[1].comment = <<"x">>
                   /\ parser_category \notin {"READABILITY", "CODING_STYLE", "NAMING"}
                        => Returned[1].severity = "HIGH"
                   /\ parser_category \in {"READABILITY", "NAMING"}
                        => Returned[1].severity = "MEDIUM"

C5_Witness ==
    /\ ppc = "done"
    /\ llm_output.kind = "element"
    /\ llm_output.element = BaseElement
    /\ llm_output.wrap = "array"
    /\ parser_category = "NAMING"
    /\ Len(Returned) = 1
    /\ Returned[1].file_name = Some(<<"a", ".", "p", "y">>)
    /\ Returned[1].severity = "MEDIUM"

\* the prose holds the paragraph that speaks of security
SpeaksOfSecurity(o) == \E p \in 1..Len(o.paragraphs) : o.paragraphs[p] = 1

\* C6 as stated: prose that contains the word "security" reaches the summary
\* fallback and yields exactly one comment, of HIGH severity.
C6_ProseReachesSummary ==
    (ppc = "done" /\ llm_output.kind = "prose" /\ SpeaksOfSecurity(llm_output))
        => /\ parse_result[1].rule = "summary"
           /\ Len(Returned) = 1
           /\ Returned[1].severity = "HIGH"

\* C6 amended: prose that contains the word "security" is answered by the
\* free-text rule, never by the summary fallback: it yields between one and
\* five comments, every comment made from a paragraph that contains
\* "security" is HIGH, and a response of one paragraph yields exactly one
\* comment, of HIGH severity.
C6_ProseSecurityIsFreeTextHigh ==
    (ppc = "done" /\ llm_output.kind = "prose" /\ SpeaksOfSecurity(llm_output))
        => /\ parse_result[1].rule = "text"
           /\ Len(Returned) \in 1..MaxTextComments
           /\ \A p \in 1..Len(Returned) :
                Contains(Lower(Returned[p].comment), <<"s", "e", "c", "u", "r", "i", "t", "y">>)
                    => Returned[p].severity = "HIGH"
           /\ (Len(llm_output.paragraphs) = 1 /\ llm_output.plain = "none")
                => (Len(Returned) = 1 /\ Returned[1].severity = "HIGH")

C6_Witness ==
    /\ ppc = "done"
    /\ llm_output.kind = "prose"
    /\ SpeaksOfSecurity(llm_output)
    /\ Len(llm_output.paragraphs) > 1
    /\ parse_result[1].rule = "text"
    /\ \E p \in 1..Len(Returned) : Returned[p].severity = "HIGH"
    /\ \E p \in 1..Len(Returned) : Returned[p].severity = "LOW"
\* C13: parse_llm_response never raises: whatever the response, it returns a
\* list of comments.
C13_ParseNeverRaises ==
    ppc = "done" => parse_result[1].rule # "raised"

\* the rules of the cascade, in their order
CascadeOrder == <<"explicit_empty", "strict_json", "text", "summary">>

\* the rule yields a result for the stripped response
RuleYields(rule, cat, response_str) ==
    CASE rule = "explicit_empty" -> IsEmptyJsonArray(response_str)
      [] rule = "strict_json" -> StrictJson(cat, response_str) # None
      [] rule = "text" -> ParseTextResponse(cat, response_str) # <<>>
      [] rule = "summary" -> TRUE

\* C15: the rules of the cascade are executed in their order, the parse ends
\* with the first rule that yields a result, so no rule behind it is
\* executed, and every rule executed before it yielded nothing.
C15_FirstRuleThatYieldsEnds ==
    (ppc = "done" /\ parse_result[1].rule \notin {"empty_response", "raised"})
        => LET r == parse_result[1]
               response_str == Strip(llm_response)
           IN /\ r.tried # <<>>
              /\ r.tried = SubSeq(CascadeOrder, 1, Len(r.tried))
              /\ r.tried[Len(r.tried)] = r.rule
              /\ RuleYields(r.rule, parser_category, response_str)
              /\ \A k \in 1..(Len(r.tried) - 1) :
                    ~RuleYields(r.tried[k], parser_category, response_str)

\* an array whose only element is dropped: the strict extraction yields
\* nothing and the free-text rule answers
C15_Witness ==
    /\ ppc = "done"
    /\ llm_output.kind = "element"
    /\ llm_output.wrap = "array"
    /\ parse_result[1].rule = "text"
    /\ parse_result[1].tried = <<"explicit_empty", "strict_json", "text">>

\* the element has a file path, a comment text
ElementHasFile(e) == HasKey(e, <<"f", "i", "l", "e">>)
ElementHasText(e) == HasKey(e, <<"c", "o", "m", "m", "e", "n", "t">>)

\* C16: the strict extraction drops an element only when it lacks both a
\* text and a file path: of the two elements of the array, each one that has
\* a text or a file path is in the returned list.
C16_DroppedOnlyWithoutTextAndFile ==
    (/\ ppc = "done"
     /\ llm_output.kind = "pair"
     /\ parse_result[1].rule = "strict_json")
        => Len(Returned)
             = (IF ElementHasFile(llm_output.first) \/ ElementHasText(llm_output.first)
                THEN 1 ELSE 0)
               + (IF ElementHasFile(llm_output.second) \/ ElementHasText(llm_output.second)
                  THEN 1 ELSE 0)


\* C26: the line number of every comment the parser returns is absent or a
\* positive integer.
C26_LineNumberPositiveOrAbsent ==
    ppc = "done" =>
        \A p \in 1..Len(Returned) :
            Returned[p].line_number = None \/ Returned[p].line_number[1] > 0

\* parse_comment returns a Comment for the element of the array
ElementKept(e) == ParseComment(parser_category, e).kind = "comment"

\* C27: parse_llm_response returns an empty list through the explicit-empty
\* rule only: the strict extraction returns at least one comment, the
\* free-text rule between one and MaxTextComments, the summary fallback
\* exactly one; an array whose elements are all dropped is answered by a
\* later rule, with at least one comment.
C27_EmptyOnlyWhenExplicit ==
    (ppc = "done" /\ parse_result[1].rule # "raised") =>
        /\ Returned = <<>> => parse_result[1].rule = "explicit_empty"
        /\ parse_result[1].rule = "strict_json" => Len(Returned) >= 1
        /\ parse_result[1].rule = "text" => Len(Returned) \in 1..MaxTextComments
        /\ parse_result[1].rule \in {"summary", "empty_response"} => Len(Returned) = 1
        /\ (/\ llm_output.kind = "pair"
            /\ ~ElementKept(llm_output.first) /\ ~ElementKept(llm_output.second))
              => /\ parse_result[1].rule \in {"text", "summary"}
                 /\ Len(Returned) >= 1

\* both elements of the array lack a file path and were dropped; the
\* free-text rule answered
C27_Witness ==
    /\ ppc = "done"
    /\ llm_output.kind = "pair"
    /\ ~ElementHasFile(llm_output.first) /\ ElementHasText(llm_output.first)
    /\ ~ElementHasFile(llm_output.second) /\ ElementHasText(llm_output.second)
    /\ parse_result[1].tried = <<"explicit_empty", "strict_json", "text">>
    /\ Len(Returned) = 1

(***************************************************************************)
(* One review of a worker: _perform_single_review                          *)
(***************************************************************************)
\* Bound: the chunks a stream yields
MaxChunks == 2

\* chunk.get("message", {}).get("content"): None when the chunk carries none
ChunkContents == { None, Some(<<"[">>), Some(<<"]">>), Some(<<" ">>) }

\* the streaming call: the chunks it yields, and whether it raises behind the
\* last of them (with no chunk: the call itself raises)
Streams ==
    { [chunks |-> cs, raises |-> r] :
        cs \in SeqsUpTo(ChunkContents, MaxChunks), r \in BOOLEAN }

\* the content of the reply to the blocking call: None when the reply carries
\* no content
BlockingContents ==
    { None, Some(<<>>), Some(<<" ">>), Some(<<"\n", " ">>), Some(<<"[", "]">>),
      Some(<<"S", "e", "c", "u", "r", "i", "t", "y", " ", "h", "o", "l", "e">>),
      Some(<<"[">> \o DumpJson(BaseElement) \o <<"]">>) }

BlockingCalls ==
    { [kind |-> "raises"] } \cup { [kind |-> "reply", content |-> c] : c \in BlockingContents }

\* str(e) of what the client raises, and of the ValueError of line 671
ClientError == <<"c", "o", "n", "n", "e", "c", "t", "i", "o", "n", " ", "r", "e", "f", "u", "s", "e", "d">>
EmptyResponseError == <<"L", "L", "M", " ", "r", "e", "t", "u", "r", "n", "e", "d", " ", "e", "m", "p", "t", "y", " ", "r", "e", "s", "p", "o", "n", "s", "e">>

\* Mutant: the comment made of an exception is of MEDIUM severity
ErrorComment_Medium(cat, e) ==
    Comment(cat, None, None,
            <<"E", "r", "r", "o", "r", " ", "d", "u", "r", "i", "n", "g", " ">> \o CategoryValue(cat) \o <<" ", "r", "e", "v", "i", "e", "w", ":", " ">> \o e,
            "MEDIUM", None)

\* lines 685-692: the comment made of an exception
ErrorComment(cat, e) ==
    Comment(cat, None, None,
            <<"E", "r", "r", "o", "r", " ", "d", "u", "r", "i", "n", "g", " ">> \o CategoryValue(cat) \o <<" ", "r", "e", "v", "i", "e", "w", ":", " ">> \o e,
            "HIGH", None)

\* lines 674 and 677-692: what parse_llm_response returned, or the comment
\* made of the exception it raised
ParsedOrError(cat, parsed) ==
    IF parsed.rule = "raised" THEN <<ErrorComment(cat, parsed.error)>>
    ELSE parsed.comments

WorkerInit ==
    /\ client \in { [stream |-> s, blocking |-> b] : s \in Streams, b \in BlockingCalls }
    /\ worker_category \in Categories
    /\ chunks_read = 0
    /\ llm_content = <<>>
    /\ model_calls = <<>>
    /\ worker_response = None
    /\ wpc = "start"
    /\ CompactorIdle
    /\ SynthIdle
    /\ SeverityIdle
    /\ ParserIdle
    /\ RepoScanIdle
    /\ ScanIdle
    /\ FormatIdle

\* lines 642-649: response_content = "" and the streaming call
OpenStream ==
    /\ wpc = "start"
    /\ model_calls' = Append(model_calls, "stream")
    /\ llm_content' = <<>>
    /\ wpc' = "streaming"
    /\ UNCHANGED <<client, worker_category, chunks_read, worker_response,
                   compactorVars, synthVars, severityVars, parserVars, orchestrationVars>>

\* lines 652-654: one chunk; content that is missing or empty adds nothing
NextChunk ==
    /\ wpc = "streaming"
    /\ chunks_read < Len(client.stream.chunks)
    /\ LET content == client.stream.chunks[chunks_read + 1]
       IN llm_content' = IF content # None /\ content[1] # <<>>
                         THEN llm_content \o content[1] ELSE llm_content
    /\ chunks_read' = chunks_read + 1
    /\ UNCHANGED <<client, worker_category, model_calls, worker_response, wpc,
                   compactorVars, synthVars, severityVars, parserVars, orchestrationVars>>

\* the stream is exhausted: the loop ends (lines 656-657)
StreamEnds ==
    /\ wpc = "streaming"
    /\ chunks_read = Len(client.stream.chunks)
    /\ ~client.stream.raises
    /\ wpc' = "collected"
    /\ UNCHANGED <<client, worker_category, chunks_read, llm_content, model_calls,
                   worker_response, compactorVars, synthVars, severityVars, parserVars, orchestrationVars>>

\* line 659: the streaming call or the iteration raises
StreamRaises ==
    /\ wpc = "streaming"
    /\ chunks_read = Len(client.stream.chunks)
    /\ client.stream.raises
    /\ wpc' = "fallback"
    /\ UNCHANGED <<client, worker_category, chunks_read, llm_content, model_calls,
                   worker_response, compactorVars, synthVars, severityVars, parserVars, orchestrationVars>>

\* Mutant: the reply of the blocking call is appended to what the stream gave
BlockingCall_KeepsPartial ==
    /\ wpc = "fallback"
    /\ model_calls' = Append(model_calls, "blocking")
    /\ IF client.blocking.kind = "raises"
       THEN /\ worker_response' = Some(<<ErrorComment(worker_category, ClientError)>>)
            /\ wpc' = "done"
            /\ UNCHANGED llm_content
       ELSE /\ llm_content' = IF client.blocking.content = None THEN llm_content
                              ELSE llm_content \o client.blocking.content[1]
            /\ wpc' = "collected"
            /\ UNCHANGED worker_response
    /\ UNCHANGED <<client, worker_category, chunks_read,
                   compactorVars, synthVars, severityVars, parserVars, orchestrationVars>>

\* Mutant: a blocking call that raised is made once more
BlockingCall_Retried ==
    /\ wpc = "fallback"
    /\ model_calls' = Append(model_calls, "blocking")
    /\ IF client.blocking.kind = "raises"
       THEN IF Len(model_calls) < 2
            THEN UNCHANGED <<worker_response, wpc, llm_content>>
            ELSE /\ worker_response' = Some(<<ErrorComment(worker_category, ClientError)>>)
                 /\ wpc' = "done"
                 /\ UNCHANGED llm_content
       ELSE /\ llm_content' = IF client.blocking.content = None THEN <<>>
                              ELSE client.blocking.content[1]
            /\ wpc' = "collected"
            /\ UNCHANGED worker_response
    /\ UNCHANGED <<client, worker_category, chunks_read,
                   compactorVars, synthVars, severityVars, parserVars, orchestrationVars>>

\* lines 664-665: the blocking call; response.get("message", {}).get("content", "")
\* replaces what the stream had given.  An exception of the call reaches the
\* handler of line 677.
BlockingCall ==
    /\ wpc = "fallback"
    /\ model_calls' = Append(model_calls, "blocking")
    /\ IF client.blocking.kind = "raises"
       THEN /\ worker_response' = Some(<<ErrorComment(worker_category, ClientError)>>)
            /\ wpc' = "done"
            /\ UNCHANGED llm_content
       ELSE /\ llm_content' = IF client.blocking.content = None THEN <<>>
                              ELSE client.blocking.content[1]
            /\ wpc' = "collected"
            /\ UNCHANGED worker_response
    /\ UNCHANGED <<client, worker_category, chunks_read,
                   compactorVars, synthVars, severityVars, parserVars, orchestrationVars>>

\* lines 670-674 and 677-693: blank content raises the ValueError that becomes
\* the error comment, other content is parsed
CheckAndParse ==
    /\ wpc = "collected"
    /\ worker_response' =
         Some(IF Strip(llm_content) = <<>>
              THEN <<ErrorComment(worker_category, EmptyResponseError)>>
              ELSE ParsedOrError(worker_category,
                                 ParseLlmResponse(worker_category, llm_content)))
    /\ wpc' = "done"
    /\ UNCHANGED <<client, worker_category, chunks_read, llm_content, model_calls,
                   compactorVars, synthVars, severityVars, parserVars, orchestrationVars>>

WorkerNext ==
    \/ OpenStream
    \/ NextChunk
    \/ StreamEnds
    \/ StreamRaises
    \/ BlockingCall
    \/ CheckAndParse

SpecWorker == WorkerInit /\ [][WorkerNext]_vars

\* the comments are the error comment of line 688
IsErrorComment(comments) ==
    /\ Len(comments) = 1
    /\ StartsWith(comments[1].comment, <<"E", "r", "r", "o", "r", " ", "d", "u", "r", "i", "n", "g", " ">>)

\* C10: when the streaming call raises and the blocking retry returns
\* non-empty content, the comments of the result are exactly what
\* parse_llm_response makes of that content, not the error comment.
C10_FallbackContentIsParsed ==
    (/\ wpc = "done"
     /\ client.stream.raises
     /\ client.blocking.kind = "reply"
     /\ client.blocking.content # None
     /\ client.blocking.content[1] # <<>>)
        => /\ worker_response
                = Some(ParseLlmResponse(worker_category, client.blocking.content[1]).comments)
           /\ ~IsErrorComment(worker_response[1])
\* C12: when the streaming call completes without raising and has yielded
\* no content, or only whitespace, the review makes one blocking call before
\* it ends.
C12_BlankStreamFallsBack ==
    (/\ wpc = "done"
     /\ ~client.stream.raises
     /\ Strip(llm_content) = <<>>)
        => model_calls = <<"stream", "blocking">>

\* what the chunks of the stream add up to (lines 652-654)
StreamedContent ==
    LET RECURSIVE Sum(_)
        Sum(n) == IF n = 0 THEN <<>>
                  ELSE LET content == client.stream.chunks[n]
                       IN Sum(n - 1) \o (IF content = None THEN <<>> ELSE content[1])
    IN Sum(Len(client.stream.chunks))

\* the content of the reply to the blocking call (line 665)
BlockingContent ==
    IF client.blocking.content = None THEN <<>> ELSE client.blocking.content[1]

\* C30: when the stream raises after chunks with content were accumulated
\* and the blocking retry replies, the content handed to the parser is
\* exactly the content of that reply, and the comments of the result are
\* what the parser makes of it alone; nothing of the failed stream is kept.
C30_PartialContentDiscarded ==
    (/\ wpc \in {"collected", "done"}
     /\ client.stream.raises
     /\ StreamedContent # <<>>
     /\ client.blocking.kind = "reply")
        => /\ llm_content = BlockingContent
           /\ (wpc = "done" /\ Strip(BlockingContent) # <<>>)
                => worker_response
                     = Some(ParsedOrError(worker_category,
                                          ParseLlmResponse(worker_category, BlockingContent)))

\* the stream gave "[" and raised; the reply of the blocking call was parsed
C30_Witness ==
    /\ wpc = "done"
    /\ client.stream.raises
    /\ StreamedContent = <<"[">>
    /\ model_calls = <<"stream", "blocking">>
    /\ client.blocking.kind = "reply"
    /\ BlockingContent = <<"[">> \o DumpJson(BaseElement) \o <<"]">>
    /\ llm_content = BlockingContent
    /\ Len(worker_response[1]) = 1
    /\ ~IsErrorComment(worker_response[1])

\* C22: every comment of the result of _perform_single_review carries the
\* severity _adjust_severity_based_on_content returns for its text (for some
\* severity given to it), whichever rule of the cascade produced it.
C22_EveryCommentClassified ==
    (wpc = "done" /\ ~IsErrorComment(worker_response[1])) =>
        \A p \in 1..Len(worker_response[1]) :
            \E given \in Severities :
                worker_response[1][p].severity
                    = AdjustSeverityBasedOnContent(worker_category,
                                                   worker_response[1][p].comment, given)



(***************************************************************************)
(* Diff compactor                                                          *)
(***************************************************************************)
MAX_CODE_LINES == 100
\* len(modified_files) > 10 switches the auto-detection to repo-scan mode
RepoScanFileThreshold == 10

\* Bounds of the compactor's inputs
MaxAdded == 103
MaxModifiedFiles == 11

\* The added lines diff_parser.extract_added_lines yields: n entries, entry i
\* carrying i as its code line; the first entry's line number follows `first`
AddedLines(n, first) ==
    [i \in 1..n |-> [file_name |-> "f.py",
                     line_number |-> IF i = 1 THEN first ELSE Some(i),
                     code_line |-> i]]

DiffInputs ==
    { [modified_files |-> m, new_file_mode |-> h, added |-> AddedLines(n, first)] :
        m \in {0, 1, RepoScanFileThreshold, MaxModifiedFiles},
        h \in BOOLEAN,
        n \in 0..MaxAdded,
        first \in {None, Some(0), Some(1)} }

\* f"{file_name}:{line_number}: + {code_line.rstrip()}"
FormatLine(a) ==
    [kind |-> "line", file_name |-> a.file_name,
     line_number |-> a.line_number[1], code_line |-> a.code_line]

\* f"... (sampled {MAX_CODE_LINES} lines from {len(formatted_code_lines)} total) ..."
Marker(total) == [kind |-> "marker", sampled |-> MAX_CODE_LINES, total |-> total]

\* line 63: line_number is not None and line_number > 0
ValidLineNumber(a) == a.line_number # None /\ a.line_number[1] > 0

\* the loop of lines 59-64: entries with a valid line number, in order
FormatAdded(added) ==
    LET valid == SelectSeq(added, ValidLineNumber)
    IN [i \in 1..Len(valid) |-> FormatLine(valid[i])]

\* lines 52-56
AutoDetectRepoScan(diff) ==
    diff.modified_files > RepoScanFileThreshold \/ diff.new_file_mode

\* the evenly spaced middle sample of lines 78-86
RECURSIVE MiddleSample(_, _, _, _, _)
MiddleSample(lines, middle_start, middle_end, middle_size, i) ==
    IF i >= middle_size THEN <<>>
    ELSE LET idx == middle_start
                    + PyFloorDiv((middle_end - middle_start) * (i + 1), middle_size + 1)
         IN (IF idx < middle_end THEN <<lines[idx + 1]>> ELSE <<>>)
            \o MiddleSample(lines, middle_start, middle_end, middle_size, i + 1)

\* Mutant: the marker is put behind the whole sample
SampleLines_MarkerLast(lines) ==
    LET beginning == PySliceTo(lines, PyFloorDiv(MAX_CODE_LINES, 2))
        end == PySliceFrom(lines, PyFloorDiv(-MAX_CODE_LINES, 2))
    IN beginning \o end \o <<Marker(Len(beginning) + Len(end))>>

\* lines 71-92: the sampling branch
SampleLines(lines) ==
    LET beginning == PySliceTo(lines, PyFloorDiv(MAX_CODE_LINES, 2))
        end == PySliceFrom(lines, PyFloorDiv(-MAX_CODE_LINES, 2))
        middle_size == MAX_CODE_LINES - Len(beginning) - Len(end)
        sampled ==
            IF middle_size > 0 /\ Len(lines) > Len(beginning) + Len(end)
            THEN beginning
                 \o MiddleSample(lines, Len(beginning), Len(lines) - Len(end),
                                 middle_size, 0)
                 \o end
            ELSE beginning \o end
    IN PyInsert(sampled, Len(beginning), Marker(Len(sampled)))

GetSampledCodeLines(diff, arg) ==
    LET repo == IF arg = None THEN AutoDetectRepoScan(diff) ELSE arg[1]
        lines == FormatAdded(diff.added)
    IN IF repo THEN lines
       ELSE IF Len(lines) > MAX_CODE_LINES THEN SampleLines(lines)
       ELSE lines

CompactorInit ==
    /\ git_diff \in DiffInputs
    /\ is_repo_scan \in {None, Some(TRUE), Some(FALSE)}
    /\ formatted_code_lines = <<>>
    /\ cpc = "start"
    /\ SynthIdle
    /\ SeverityIdle
    /\ ParserIdle
    /\ WorkerIdle
    /\ RepoScanIdle
    /\ ScanIdle
    /\ FormatIdle

\* CodeReviewWorker.get_sampled_code_lines
GetSampled ==
    /\ cpc = "start"
    /\ formatted_code_lines' = GetSampledCodeLines(git_diff, is_repo_scan)
    /\ cpc' = "done"
    /\ UNCHANGED <<git_diff, is_repo_scan, synthVars, severityVars, parserVars, workerVars, orchestrationVars>>

CompactorNext == GetSampled

SpecCompactor == CompactorInit /\ [][CompactorNext]_vars

\* C1: in diff-review mode (is_repo_scan left unspecified) the returned list
\* has at most MAX_CODE_LINES + 1 entries, whatever the diff holds.
C1_DiffModeBounded ==
    (cpc = "done" /\ is_repo_scan = None)
        => Len(formatted_code_lines) <= MAX_CODE_LINES + 1

\* the call took the sampling path: diff-review mode and more formatted
\* lines than MAX_CODE_LINES
SamplingTaken ==
    /\ cpc = "done"
    /\ ~(IF is_repo_scan = None THEN AutoDetectRepoScan(git_diff) ELSE is_repo_scan[1])
    /\ Len(FormatAdded(git_diff.added)) > MAX_CODE_LINES

\* the positions of the markers in the returned list
MarkerPositions ==
    { i \in 1..Len(formatted_code_lines) : formatted_code_lines[i].kind = "marker" }

\* C23: the marker of a sampled list states the number N of lines the
\* sample was taken from as its total.
C23_MarkerStatesOriginalTotal ==
    SamplingTaken =>
        \A i \in MarkerPositions :
            /\ formatted_code_lines[i].sampled = MAX_CODE_LINES
            /\ formatted_code_lines[i].total = Len(FormatAdded(git_diff.added))

\* ceil(B/2) and floor(B/2) for the budget B = MAX_CODE_LINES
HeadSize == (MAX_CODE_LINES + 1) \div 2
TailSize == MAX_CODE_LINES \div 2

\* out is the first ceil(B/2) of lines, one marker, whatever was sampled of
\* the middle, and the last floor(B/2) of lines
HeadMarkerTail(lines, out) ==
    /\ Len(out) >= HeadSize + 1 + TailSize
    /\ SubSeq(out, 1, HeadSize) = SubSeq(lines, 1, HeadSize)
    /\ SubSeq(out, Len(out) - TailSize + 1, Len(out))
         = SubSeq(lines, Len(lines) - TailSize + 1, Len(lines))
    /\ MarkerPositions = {HeadSize + 1}

\* C24: a sampled list starts with the first ceil(B/2) formatted lines and
\* ends with the last floor(B/2) ones, each group in its order, and has
\* exactly one marker, directly behind the head group.
C24_HeadMarkerTail ==
    SamplingTaken => HeadMarkerTail(FormatAdded(git_diff.added), formatted_code_lines)

\* an explicit diff-review call on 103 added lines was sampled
C24_Witness ==
    /\ SamplingTaken
    /\ is_repo_scan = Some(FALSE)
    /\ Len(FormatAdded(git_diff.added)) = 103
    /\ formatted_code_lines[HeadSize].code_line = HeadSize
    /\ formatted_code_lines[HeadSize + 1].kind = "marker"
    /\ formatted_code_lines[Len(formatted_code_lines)].code_line = 103

\* when lines lie between the head and the tail, some line of out is one
\* of them
HoldsMiddleLine(lines, out) ==
    Len(lines) > HeadSize + TailSize =>
        \E k \in (HeadSize + 1)..(Len(lines) - TailSize) :
            \E i \in 1..Len(out) :
                out[i].kind = "line" /\ out[i].code_line = lines[k].code_line

\* C25: when lines lie between the head and the tail of an input that is
\* sampled, the returned list holds lines of that middle range.
C25_MiddleIsSampled ==
    SamplingTaken => HoldsMiddleLine(FormatAdded(git_diff.added), formatted_code_lines)


(***************************************************************************)
(* A worker in repository scan mode: _review_repo_scan reviews the files   *)
(* of the diff one by one, each by one _perform_single_review              *)
(***************************************************************************)
\* Bound: the files the diff names
MaxScanFiles == 2

ScanPaths == { <<"a", ".", "p", "y">>, <<"b", ".", "p", "y">>, <<"c", ".", "p", "y">> }

\* _extract_files_from_diff: the paths of the diff, each once (lines 570, 575)
ScanFileLists ==
    { fl \in SeqsUpTo(ScanPaths, MaxScanFiles) :
        \A i, j \in 1..Len(fl) : i # j => fl[i] # fl[j] }

\* _get_file_content: "" for a path that is missing or cannot be read
ScanContents == { <<>>, <<"x", "\n">> }

ProseReply == <<"S", "e", "c", "u", "r", "i", "t", "y", " ", "h", "o", "l", "e">>
ArrayReply == <<"[">> \o DumpJson(BaseElement) \o <<"]">>

\* what the model client does for one file
ScanStreams ==
    { [chunks |-> <<>>, raises |-> TRUE],
      [chunks |-> <<>>, raises |-> FALSE],
      [chunks |-> <<Some(ProseReply)>>, raises |-> TRUE],
      [chunks |-> <<Some(ProseReply)>>, raises |-> FALSE],
      [chunks |-> <<Some(ArrayReply)>>, raises |-> FALSE] }

ScanBlockingCalls ==
    { [kind |-> "raises"],
      [kind |-> "reply", content |-> None],
      [kind |-> "reply", content |-> Some(ProseReply)],
      [kind |-> "reply", content |-> Some(ArrayReply)] }

ScanClients == { [stream |-> s, blocking |-> b] : s \in ScanStreams, b \in ScanBlockingCalls }

\* Mutant: the comments are gathered as the review returned them
BackFill_Unfilled(comments, file_path) == comments

\* lines 542-544: a comment without file name takes the path of the file
BackFill(comments, file_path) ==
    [i \in 1..Len(comments) |->
        IF comments[i].file_name = None \/ comments[i].file_name[1] = <<>>
        THEN [comments[i] EXCEPT !.file_name = Some(file_path)]
        ELSE comments[i]]

RepoScanInit ==
    /\ scan_files \in ScanFileLists
    /\ repo_content \in [ScanPaths -> ScanContents]
    /\ worker_category \in Categories
    /\ file_index = 0
    /\ all_comments = <<>>
    /\ scanned = <<>>
    /\ rpc = "loop"
    /\ client = [kind |-> "none"]
    /\ chunks_read = 0
    /\ llm_content = None
    /\ model_calls = <<>>
    /\ worker_response = None
    /\ wpc = "idle"
    /\ CompactorIdle
    /\ SynthIdle
    /\ SeverityIdle
    /\ ParserIdle
    /\ ScanIdle
    /\ FormatIdle

\* lines 523-526: the file has no content: it is passed over
SkipEmptyFile ==
    /\ rpc = "loop"
    /\ file_index < Len(scan_files)
    /\ repo_content[scan_files[file_index + 1]] = <<>>
    /\ file_index' = file_index + 1
    /\ UNCHANGED <<scan_files, repo_content, all_comments, scanned, rpc,
                   compactorVars, synthVars, severityVars, parserVars, workerVars,
                   scanVars, formatVars>>

\* lines 529-539: the file has content: _perform_single_review is entered
BeginFileReview ==
    /\ rpc = "loop"
    /\ file_index < Len(scan_files)
    /\ repo_content[scan_files[file_index + 1]] # <<>>
    /\ client' \in ScanClients
    /\ chunks_read' = 0
    /\ llm_content' = <<>>
    /\ model_calls' = <<>>
    /\ worker_response' = None
    /\ wpc' = "start"
    /\ rpc' = "reviewing"
    /\ UNCHANGED <<scan_files, repo_content, file_index, all_comments, scanned,
                   worker_category, compactorVars, synthVars, severityVars, parserVars,
                   scanVars, formatVars>>

\* lines 542-547: _perform_single_review has returned; its comments are
\* back-filled and gathered, and the loop goes on
EndFileReview ==
    /\ rpc = "reviewing"
    /\ wpc = "done"
    /\ LET file_path == scan_files[file_index + 1]
       IN /\ all_comments' = all_comments \o BackFill(worker_response[1], file_path)
          /\ scanned' = Append(scanned, file_path)
    /\ file_index' = file_index + 1
    /\ rpc' = "loop"
    /\ client' = [kind |-> "none"]
    /\ chunks_read' = 0
    /\ llm_content' = None
    /\ model_calls' = <<>>
    /\ worker_response' = None
    /\ wpc' = "idle"
    /\ UNCHANGED <<scan_files, repo_content, worker_category,
                   compactorVars, synthVars, severityVars, parserVars,
                   scanVars, formatVars>>

\* lines 554-555: every file was gone through
ReturnAllComments ==
    /\ rpc = "loop"
    /\ file_index = Len(scan_files)
    /\ rpc' = "returned"
    /\ UNCHANGED <<scan_files, repo_content, file_index, all_comments, scanned,
                   compactorVars, synthVars, severityVars, parserVars, workerVars,
                   scanVars, formatVars>>

RepoScanNext ==
    \/ SkipEmptyFile
    \/ BeginFileReview
    \/ OpenStream
    \/ NextChunk
    \/ StreamEnds
    \/ StreamRaises
    \/ BlockingCall
    \/ CheckAndParse
    \/ EndFileReview
    \/ ReturnAllComments

SpecRepoScan == RepoScanInit /\ [][RepoScanNext]_vars

\* the files of the diff that have content, in order
RECURSIVE FilesWithContent(_)
FilesWithContent(files) ==
    IF files = <<>> THEN <<>>
    ELSE (IF repo_content[Head(files)] # <<>> THEN <<Head(files)>> ELSE <<>>)
         \o FilesWithContent(Tail(files))

\* C11: when the streaming call and the blocking retry both fail, the review
\* has made exactly two model calls, the streaming one then the blocking one,
\* and ends with exactly one comment, of HIGH severity, that reports the
\* failure; no review makes a third call; and the scan goes on: when it
\* returns, every file that has content had its review, in order.
C11_BothCallsFailOneHighComment ==
    /\ Len(model_calls) <= 2
    /\ (/\ rpc = "reviewing" /\ wpc = "done"
        /\ client.stream.raises /\ client.blocking.kind = "raises")
          => /\ model_calls = <<"stream", "blocking">>
             /\ worker_response # None
             /\ IsErrorComment(worker_response[1])
             /\ worker_response[1][1].severity = "HIGH"
    /\ rpc = "returned" => scanned = FilesWithContent(scan_files)

\* the review of the first file failed on both calls and the second file
\* was reviewed all the same
C11_Witness ==
    /\ rpc = "returned"
    /\ Len(scanned) = 2
    /\ Len(all_comments) >= 2
    /\ all_comments[1] = [ErrorComment(worker_category, ClientError)
                            EXCEPT !.file_name = Some(scanned[1])]
    /\ all_comments[2].file_name = Some(<<"a", ".", "p", "y">>)
    /\ scanned[2] = <<"b", ".", "p", "y">>

\* a comment has a file path, and it is not the empty one
HasFilePath(c) == c.file_name # None /\ c.file_name[1] # <<>>

\* C18: every comment gathered by _review_repo_scan has a non-empty file
\* path; when the review of a file ends, each of its comments is gathered:
\* one that came without file path with the path of that file and nothing
\* else changed, one that had a file path as it is.
C18_EveryCommentHasFilePath ==
    /\ [](\A i \in 1..Len(all_comments) : HasFilePath(all_comments[i]))
    /\ [][(rpc = "reviewing" /\ rpc' = "loop") =>
            LET reviewed == worker_response[1]
                n == Len(all_comments)
            IN /\ Len(all_comments') = n + Len(reviewed)
               /\ SubSeq(all_comments', 1, n) = all_comments
               /\ \A i \in 1..Len(reviewed) :
                    all_comments'[n + i] =
                       IF HasFilePath(reviewed[i]) THEN reviewed[i]
                       ELSE [reviewed[i] EXCEPT
                               !.file_name = Some(scan_files[file_index + 1])]
         ]_vars

\* the review of a.py ended with a comment without file path, the review of
\* b.py with a comment on a.py
C18_Witness ==
    /\ rpc = "returned"
    /\ scanned = << <<"a", ".", "p", "y">>, <<"b", ".", "p", "y">> >>
    /\ Len(all_comments) = 2
    /\ ParseLlmResponse(worker_category, ProseReply).comments[1].file_name = None
    /\ all_comments[1] = [ParseLlmResponse(worker_category, ProseReply).comments[1]
                            EXCEPT !.file_name = Some(scanned[1])]
    /\ all_comments[2] = ParseLlmResponse(worker_category, ArrayReply).comments[1]
    /\ all_comments[2].file_name = Some(scanned[1])

(***************************************************************************)
(* Repository scan: scan_repository of repo_scanner.py                     *)
(***************************************************************************)
\* Bound: the number of categories requested of one scan
MaxCategories == 3

\* the command line splits --categories at the commas and keeps every name
\* it knows, a name given twice as well (repo_scanner.py lines 691-703)
ScanCategories == {"NAMING", "TESTS"}

CategoryLists == SeqsUpTo(ScanCategories, MaxCategories)

\* the paths and the file systems of a scan
ScanFilesToScan == { <<>>, <<"a.py">>, <<"a.py", "b.py">> }

ScanFileSystems ==
    { [p \in Paths |-> IF p = "a.py"
                       THEN [exists |-> TRUE, readable |-> TRUE, content |-> <<" ", "\n">>]
                       ELSE [exists |-> FALSE, readable |-> FALSE, content |-> <<>>]],
      [p \in Paths |-> IF p = "a.py"
                       THEN [exists |-> TRUE, readable |-> TRUE, content |-> <<"x">>]
                       ELSE [exists |-> TRUE, readable |-> FALSE, content |-> <<>>]],
      [p \in Paths |-> IF p = "a.py"
                       THEN [exists |-> TRUE, readable |-> TRUE, content |-> TwentyLines]
                       ELSE [exists |-> TRUE, readable |-> TRUE, content |-> <<"x">>]] }

\* worker.review(virtual_diff, system_prompt, is_repo_scan=True) raises, or
\* returns a WorkerResponse of its category
ReviewOutcomes == {"raises", "returns_nothing", "returns_x", "returns_y"}

ReviewComments(cat, outcome) ==
    CASE outcome = "returns_x" ->
           << Comment(cat, Some(<<"a", ".", "p", "y">>), Some(5), <<"x">>, "HIGH", None) >>
      [] outcome = "returns_y" ->
           << Comment(cat, Some(<<"a", ".", "p", "y">>), Some(7), <<"y">>, "LOW", None) >>
      [] OTHER -> <<>>

\* summary="没有找到可扫描的内容" (line 465) and
\* summary = "仓库扫描完成 - 已跳过摘要生成" (line 572)
NothingToScanSummary == <<"u6ca1", "u6709", "u627e", "u5230", "u53ef", "u626b", "u63cf", "u7684", "u5185", "u5bb9">>
ScanDoneSummary == <<"u4ed3", "u5e93", "u626b", "u63cf", "u5b8c", "u6210", " ", "-", " ", "u5df2", "u8df3", "u8fc7", "u6458", "u8981", "u751f", "u6210">>

\* a dict, in the order of insertion of its keys
DictKeys(d) == { d[i].key : i \in 1..Len(d) }

DictGet(d, k) == d[CHOOSE i \in 1..Len(d) : d[i].key = k].value

DictPut(d, k, v) ==
    IF k \in DictKeys(d)
    THEN [i \in 1..Len(d) |-> IF d[i].key = k THEN [key |-> k, value |-> v] ELSE d[i]]
    ELSE Append(d, [key |-> k, value |-> v])

\* Mutant: a worker that raised leaves a response without comments
ReviewStep_FailureKept(responses, cat, outcome) ==
    Append(responses, [category |-> cat, comments |-> ReviewComments(cat, outcome)])

\* lines 516-555, the body of `for i, worker in enumerate(workers, 1)`: the
\* response of a review that returned is appended (line 533); a review that
\* raised is reported and leaves nothing (lines 542-555)
ReviewStep(responses, cat, outcome) ==
    IF outcome = "raises" THEN responses
    ELSE Append(responses, [category |-> cat, comments |-> ReviewComments(cat, outcome)])

\* lines 566-568: categories_dict[response.category] = response.comments
RECURSIVE CategoriesDict(_, _)
CategoriesDict(responses, d) ==
    IF responses = <<>> THEN d
    ELSE CategoriesDict(Tail(responses),
                        DictPut(d, Head(responses).category, Head(responses).comments))

\* CodeReviewResponse(categories=, summary=)
CodeReviewResponse(categories_dict, summary) ==
    [categories |-> categories_dict, summary |-> summary]

ScanInit ==
    /\ files_to_scan \in ScanFilesToScan
    /\ fs \in ScanFileSystems
    /\ synth = "virtual"
    /\ visited = 0
    /\ acc = EmptyAcc
    /\ stats = None
    /\ spc = "idle"
    /\ categories \in CategoryLists
    /\ review_outcomes \in [1..Len(categories) -> ReviewOutcomes]
    /\ diff_validates \in BOOLEAN
    /\ scan_stats = None
    /\ worker_index = 0
    /\ review_calls = <<>>
    /\ invocations = <<>>
    /\ worker_responses = <<>>
    /\ scan_result = None
    /\ kpc = "start"
    /\ CompactorIdle
    /\ SeverityIdle
    /\ ParserIdle
    /\ WorkerIdle
    /\ RepoScanIdle
    /\ FormatIdle

\* lines 459-465: the virtual diff is made; a blank one ends the scan
ScanCreateVirtualDiff ==
    /\ kpc = "start"
    /\ scan_stats' = Some(CreateVirtualDiff(files_to_scan, fs).stats)
    /\ IF CreateVirtualDiff(files_to_scan, fs).diff = <<>>
       THEN /\ scan_result' = Some(CodeReviewResponse(<<>>, NothingToScanSummary))
            /\ kpc' = "returned"
       ELSE /\ scan_result' = scan_result
            /\ kpc' = "validate"
    /\ UNCHANGED <<categories, review_outcomes, diff_validates, worker_index,
                   review_calls, invocations, worker_responses,
                   compactorVars, synthVars, severityVars, parserVars, workerVars,
                   repoScanVars, formatVars>>

\* lines 498-507: PatchSet.from_string(virtual_diff); when it raises, the
\* diff of _create_simplified_diff takes its place and the statistics of that
\* call are dropped (`virtual_diff, _ = ...`)
ScanValidateDiff ==
    /\ kpc = "validate"
    /\ synth' = IF diff_validates THEN "virtual" ELSE "simplified"
    /\ kpc' = "review"
    /\ UNCHANGED <<files_to_scan, fs, visited, acc, stats, spc,
                   categories, review_outcomes, diff_validates, scan_stats, worker_index,
                   review_calls, invocations, worker_responses, scan_result,
                   compactorVars, severityVars, parserVars, workerVars,
                   repoScanVars, formatVars>>

\* lines 515-555: the review of the next worker
ScanRunWorker ==
    /\ kpc = "review"
    /\ worker_index < Len(categories)
    /\ review_calls' = Append(review_calls, categories[worker_index + 1])
    /\ worker_responses' = ReviewStep(worker_responses, categories[worker_index + 1],
                                      review_outcomes[worker_index + 1])
    /\ worker_index' = worker_index + 1
    /\ UNCHANGED <<categories, review_outcomes, diff_validates, scan_stats,
                   invocations, scan_result, kpc,
                   compactorVars, synthVars, severityVars, parserVars, workerVars,
                   repoScanVars, formatVars>>

\* lines 558-577: the aggregate is built and returned
ScanReturn ==
    /\ kpc = "review"
    /\ worker_index = Len(categories)
    /\ scan_result' = Some(CodeReviewResponse(CategoriesDict(worker_responses, <<>>),
                                              ScanDoneSummary))
    /\ kpc' = "returned"
    /\ UNCHANGED <<categories, review_outcomes, diff_validates, scan_stats, worker_index,
                   review_calls, invocations, worker_responses,
                   compactorVars, synthVars, severityVars, parserVars, workerVars,
                   repoScanVars, formatVars>>

ScanNext ==
    \/ ScanCreateVirtualDiff
    \/ ScanValidateDiff
    \/ ScanRunWorker
    \/ ScanReturn

SpecScan == ScanInit /\ [][ScanNext]_vars

\* the scan went through its workers and returned
ScanReviewed == kpc = "returned" /\ scan_result[1].summary = ScanDoneSummary

\* the positions of the workers of category cat whose review returned
ReturnedAt(cat) ==
    { i \in 1..Len(categories) : categories[i] = cat /\ review_outcomes[i] # "raises" }

\* C14 (as stated): when the worker of a category raises from review(), every
\* later worker is still run, the aggregate has no entry for that category
\* and has an entry for exactly the requested categories whose worker
\* returned; the keys of the aggregate are among the requested categories.
C14_FailedCategoryAbsent ==
    /\ kpc = "review" => review_calls = SubSeq(categories, 1, worker_index)
    /\ ScanReviewed => review_calls = categories
    /\ kpc = "returned" =>
         DictKeys(scan_result[1].categories) \subseteq { categories[i] : i \in 1..Len(categories) }
    /\ ScanReviewed =>
         /\ \A i \in 1..Len(categories) :
              review_outcomes[i] = "raises" =>
                 categories[i] \notin DictKeys(scan_result[1].categories)
         /\ DictKeys(scan_result[1].categories)
              = { categories[i] : i \in { j \in 1..Len(categories) : review_outcomes[j] # "raises" } }

\* C14 (amended): a review() that raises stops nothing: every worker is run,
\* in the order of the request.  The keys of the aggregate are among the
\* requested categories, and they are exactly the categories of which some
\* worker returned; the entry of a category holds the comments of its last
\* worker that returned.  A category whose worker raised has no entry when
\* no other worker of that category returned, which is so whenever each
\* category is requested once.
C14_FailureLeavesOthers ==
    /\ kpc = "review" => review_calls = SubSeq(categories, 1, worker_index)
    /\ ScanReviewed => review_calls = categories
    /\ kpc = "returned" =>
         DictKeys(scan_result[1].categories) \subseteq { categories[i] : i \in 1..Len(categories) }
    /\ ScanReviewed =>
         /\ DictKeys(scan_result[1].categories)
              = { cat \in ScanCategories : ReturnedAt(cat) # {} }
         /\ \A cat \in DictKeys(scan_result[1].categories) :
              LET last == CHOOSE i \in ReturnedAt(cat) : \A j \in ReturnedAt(cat) : j <= i
              IN DictGet(scan_result[1].categories, cat)
                   = ReviewComments(cat, review_outcomes[last])
         /\ \A i \in 1..Len(categories) :
              (/\ review_outcomes[i] = "raises"
               /\ \A j \in 1..Len(categories) : j # i => categories[j] # categories[i])
                 => categories[i] \notin DictKeys(scan_result[1].categories)

\* two categories requested once each: the worker of the
\* first raised, the worker of the second was run and has its entry
C14_Witness ==
    /\ ScanReviewed
    /\ categories = <<"NAMING", "TESTS">>
    /\ review_outcomes = <<"raises", "returns_x">>
    /\ review_calls = <<"NAMING", "TESTS">>
    /\ DictKeys(scan_result[1].categories) = {"TESTS"}

\* C19: the aggregate returned by scan_repository holds the statistics of
\* the synthesizer (files found, processed, skipped, total lines) beside the
\* mapping of the categories and the summary.
C19_AggregateHasStatistics ==
    kpc = "returned" =>
        /\ DOMAIN scan_result[1] = {"categories", "summary", "statistics"}
        /\ scan_result[1].statistics = scan_stats[1]

(***************************************************************************)
(* A whole scan: scan_repository, the review of every worker file by file  *)
(* (_review_repo_scan) and the calls each review makes to the model client *)
(***************************************************************************)
\* Bound: the categories of a whole scan
MaxRunCategories == 2

RunCategoryLists == SeqsUpTo(ScanCategories, MaxRunCategories)

\* the characters of a path
PathChars(p) ==
    CASE p = "a.py" -> <<"a", ".", "p", "y">>
      [] p = "b.py" -> <<"b", ".", "p", "y">>
      [] p = "c.py" -> <<"c", ".", "p", "y">>

\* repo_scanner.py lines 345-354 and 414-417: the text one entry of the diff
\* adds to virtual_diff, to simplified_diff
EntryText(e) ==
    CASE e.kind = "diff_git" ->
           <<"d", "i", "f", "f", " ", "-", "-", "g", "i", "t", " ", "a", "/">> \o PathChars(e.path) \o <<" ", "b", "/">> \o PathChars(e.path) \o <<"\n">>
      [] e.kind = "new_file_mode" -> <<"n", "e", "w", " ", "f", "i", "l", "e", " ", "m", "o", "d", "e", " ", "1", "0", "0", "6", "4", "4", "\n">>
      [] e.kind = "index" -> <<"i", "n", "d", "e", "x", " ", "0", "0", "0", "0", "0", "0", "0", ".", ".", "a", "a", "a", "a", "a", "a", "a", "\n">>
      [] e.kind = "minus_dev_null" -> <<"-", "-", "-", " ", "/", "d", "e", "v", "/", "n", "u", "l", "l", "\n">>
      [] e.kind = "plus_b" -> <<"+", "+", "+", " ", "b", "/">> \o PathChars(e.path) \o <<"\n">>
      [] e.kind = "hunk" -> <<"@", "@", " ", "-", "0", ",", "0", " ", "+", "1", ",">> \o IntToChars(e.count) \o <<" ", "@", "@", "\n">>
      [] e.kind = "added" -> <<"+">> \o e.text \o <<"\n">>
      [] e.kind = "file_marker" -> <<"\n", "=", "=", "=", " ", "F", "I", "L", "E", ":", " ">> \o PathChars(e.path) \o <<" ", "=", "=", "=", "\n">>
      [] e.kind = "content" -> e.text
      [] e.kind = "end_marker" -> <<"\n", "=", "=", "=", " ", "E", "N", "D", " ", "F", "I", "L", "E", ":", " ">> \o PathChars(e.path) \o <<" ", "=", "=", "=", "\n">>

RECURSIVE DiffText(_)
DiffText(entries) ==
    IF entries = <<>> THEN <<>>
    ELSE EntryText(Head(entries)) \o DiffText(Tail(entries))

\* git_diff.split('\n') (worker.py line 560)
SplitNewline(s) ==
    LET breaks == { p \in 1..Len(s) : s[p] = "\n" }
        starts == {1} \cup { p + 1 : p \in breaks }
        EndOf(a) == IF \E b \in breaks : b >= a
                    THEN MinOf({ b \in breaks : b >= a }) - 1 ELSE Len(s)
        NthStart(n) == CHOOSE a \in starts : Cardinality({ b \in starts : b < a }) = n - 1
    IN [n \in 1..Cardinality(starts) |-> SubSeq(s, NthStart(n), EndOf(NthStart(n)))]

\* line.split() of a line that holds no white space but blanks
SplitBlanks(line) ==
    LET starts == { p \in 1..Len(line) : line[p] # " " /\ (p = 1 \/ line[p - 1] = " ") }
        EndOf(a) == IF \E b \in a..Len(line) : line[b] = " "
                    THEN MinOf({ b \in a..Len(line) : line[b] = " " }) - 1 ELSE Len(line)
        NthStart(n) == CHOOSE a \in starts : Cardinality({ b \in starts : b < a }) = n - 1
    IN [n \in 1..Cardinality(starts) |-> SubSeq(line, NthStart(n), EndOf(NthStart(n)))]

\* `if file_path not in files: files.append(file_path)`
AppendNew(files, file_path) ==
    IF \E i \in 1..Len(files) : files[i] = file_path THEN files
    ELSE Append(files, file_path)

\* worker.py lines 562-576: what one line of the diff adds to files
ExtractStep(files, line) ==
    IF StartsWith(line, <<"d", "i", "f", "f", " ", "-", "-", "g", "i", "t">>)
    THEN IF Len(SplitBlanks(line)) >= 4
         THEN AppendNew(files, From(SplitBlanks(line)[3], 3))
         ELSE files
    ELSE IF StartsWith(line, <<"+", "+", "+", " ", "b", "/">>)
    THEN AppendNew(files, From(line, 7))
    ELSE files

RECURSIVE ExtractOver(_, _, _)
ExtractOver(lines, n, files) ==
    IF n > Len(lines) THEN files
    ELSE ExtractOver(lines, n + 1, ExtractStep(files, lines[n]))

\* _extract_files_from_diff(git_diff)
ExtractFilesFromDiff(git_diff_text) == ExtractOver(SplitNewline(git_diff_text), 1, <<>>)

\* _get_file_content(file_path): "" for a path that is missing or cannot be
\* read (worker.py lines 580-591)
GetFileContent(fsys, file_path) ==
    LET known == { p \in Paths : PathChars(p) = file_path }
        file == fsys[CHOOSE p \in known : TRUE]
    IN IF known = {} THEN <<>>
       ELSE IF file.exists /\ file.readable THEN file.content
       ELSE <<>>

\* the text scan_repository hands to every worker (lines 459, 507): the
\* virtual diff, or the text of _create_simplified_diff when PatchSet
\* rejected it
HandedDiff ==
    DiffText(IF synth = "virtual" THEN CreateVirtualDiff(files_to_scan, fs).diff
             ELSE CreateSimplifiedDiff(files_to_scan, fs).diff)

\* what the model client does for one file of a whole scan
RunClients ==
    { [stream |-> [chunks |-> <<Some(ArrayReply)>>, raises |-> FALSE],
       blocking |-> [kind |-> "raises"]],
      [stream |-> [chunks |-> <<Some(ProseReply)>>, raises |-> TRUE],
       blocking |-> [kind |-> "raises"]] }

\* a line of a.py reads "++ b/c.py"; c.py, which is not among the paths to
\* scan, is missing or has a content
PlusLineContent == <<"+", "+", " ", "b", "/", "c", ".", "p", "y", "\n">>

RunFileSystems ==
    ScanFileSystems
    \cup { [p \in Paths |->
              CASE p = "a.py" -> [exists |-> TRUE, readable |-> TRUE, content |-> PlusLineContent]
                [] p = "b.py" -> [exists |-> FALSE, readable |-> FALSE, content |-> <<>>]
                [] p = "c.py" -> c_file] :
            c_file \in { [exists |-> FALSE, readable |-> FALSE, content |-> <<>>],
                         [exists |-> TRUE, readable |-> TRUE, content |-> <<"x">>] } }

RunInit ==
    /\ files_to_scan \in ScanFilesToScan
    /\ fs \in RunFileSystems
    /\ synth = "virtual"
    /\ visited = 0
    /\ acc = EmptyAcc
    /\ stats = None
    /\ spc = "idle"
    /\ categories \in RunCategoryLists
    /\ review_outcomes = <<>>
    /\ diff_validates \in BOOLEAN
    /\ scan_stats = None
    /\ worker_index = 0
    /\ review_calls = <<>>
    /\ invocations = <<>>
    /\ worker_responses = <<>>
    /\ scan_result = None
    /\ kpc = "start"
    /\ scan_files = <<>>
    /\ repo_content = [file_path \in ScanPaths |-> GetFileContent(fs, file_path)]
    /\ file_index = 0
    /\ all_comments = <<>>
    /\ scanned = <<>>
    /\ rpc = "idle"
    /\ WorkerIdle
    /\ CompactorIdle
    /\ SeverityIdle
    /\ ParserIdle
    /\ FormatIdle

\* repo_scanner.py line 530 and worker.py lines 513-516: review() of the next
\* worker is entered; it extracts the files of the text it was handed
RunBeginWorker ==
    /\ kpc = "review"
    /\ rpc = "idle"
    /\ worker_index < Len(categories)
    /\ review_calls' = Append(review_calls, categories[worker_index + 1])
    /\ worker_category' = categories[worker_index + 1]
    /\ scan_files' = ExtractFilesFromDiff(HandedDiff)
    /\ file_index' = 0
    /\ all_comments' = <<>>
    /\ scanned' = <<>>
    /\ rpc' = "loop"
    /\ UNCHANGED <<repo_content, client, chunks_read, llm_content, model_calls,
                   worker_response, wpc,
                   categories, review_outcomes, diff_validates, scan_stats, worker_index,
                   invocations, worker_responses, scan_result, kpc,
                   compactorVars, synthVars, severityVars, parserVars, formatVars>>

\* worker.py lines 529-539: the file has content: _perform_single_review is
\* entered
RunBeginFile ==
    /\ kpc = "review"
    /\ rpc = "loop"
    /\ file_index < Len(scan_files)
    /\ repo_content[scan_files[file_index + 1]] # <<>>
    /\ client' \in RunClients
    /\ chunks_read' = 0
    /\ llm_content' = <<>>
    /\ model_calls' = <<>>
    /\ worker_response' = None
    /\ wpc' = "start"
    /\ rpc' = "reviewing"
    /\ UNCHANGED <<scan_files, repo_content, file_index, all_comments, scanned,
                   worker_category, compactorVars, synthVars, severityVars, parserVars,
                   scanVars, formatVars>>

\* the calls of the review of one file, as entries of invocations
CallsOfFile(worker, file_no, calls) ==
    [n \in 1..Len(calls) |-> [worker |-> worker, file_no |-> file_no, call |-> calls[n]]]

\* worker.py lines 542-547: _perform_single_review has returned; its comments
\* are back-filled and gathered, and the loop goes on
RunEndFile ==
    /\ kpc = "review"
    /\ rpc = "reviewing"
    /\ wpc = "done"
    /\ LET file_path == scan_files[file_index + 1]
       IN /\ all_comments' = all_comments \o BackFill(worker_response[1], file_path)
          /\ scanned' = Append(scanned, file_path)
    /\ invocations' = invocations \o CallsOfFile(worker_index + 1, file_index + 1, model_calls)
    /\ file_index' = file_index + 1
    /\ rpc' = "loop"
    /\ client' = [kind |-> "none"]
    /\ chunks_read' = 0
    /\ llm_content' = None
    /\ model_calls' = <<>>
    /\ worker_response' = None
    /\ wpc' = "idle"
    /\ UNCHANGED <<scan_files, repo_content, worker_category,
                   categories, review_outcomes, diff_validates, scan_stats, worker_index,
                   review_calls, worker_responses, scan_result, kpc,
                   compactorVars, synthVars, severityVars, parserVars, formatVars>>

\* worker.py lines 554-555 and repo_scanner.py lines 533-534: every file was
\* gone through; review() returns and its response is appended
RunEndWorker ==
    /\ kpc = "review"
    /\ rpc = "loop"
    /\ file_index = Len(scan_files)
    /\ worker_responses' = Append(worker_responses,
                                  [category |-> worker_category, comments |-> all_comments])
    /\ worker_index' = worker_index + 1
    /\ rpc' = "idle"
    /\ UNCHANGED <<scan_files, repo_content, file_index, all_comments, scanned,
                   categories, review_outcomes, diff_validates, scan_stats,
                   review_calls, invocations, scan_result, kpc,
                   compactorVars, synthVars, severityVars, parserVars, workerVars,
                   formatVars>>

RunNext ==
    \/ ScanCreateVirtualDiff
    \/ ScanValidateDiff
    \/ RunBeginWorker
    \/ SkipEmptyFile
    \/ RunBeginFile
    \/ OpenStream
    \/ NextChunk
    \/ StreamEnds
    \/ StreamRaises
    \/ BlockingCall
    \/ CheckAndParse
    \/ RunEndFile
    \/ RunEndWorker
    \/ ScanReturn

SpecScanRun == RunInit /\ [][RunNext]_vars

\* the calls made to the model client so far, those of the review that is
\* under way included
AllInvocations ==
    invocations
      \o (IF rpc = "reviewing"
          THEN CallsOfFile(worker_index + 1, file_index + 1, model_calls) ELSE <<>>)

\* worker by worker, within a worker file by file in the order of the diff,
\* and for one file the streaming call, then at most the one blocking call
InScanOrder(calls) ==
    \A i, j \in 1..Len(calls) :
        i < j =>
            \/ calls[i].worker < calls[j].worker
            \/ calls[i].worker = calls[j].worker /\ calls[i].file_no < calls[j].file_no
            \/ /\ calls[i].worker = calls[j].worker /\ calls[i].file_no = calls[j].file_no
               /\ j = i + 1
               /\ calls[i].call = "stream" /\ calls[j].call = "blocking"

\* C21: a scan is sequential: the call in flight is the only call of its
\* file so far and the blocking call starts after the stream has ended (at
\* most one call in flight), every call of a worker precedes every call of
\* the next worker, the files of a worker are gone through in the order of
\* the diff, and the calls number at most two per category and file of the
\* diff.
C21_ScanIsSequential ==
    /\ wpc = "streaming" => model_calls = <<"stream">>
    /\ wpc = "fallback" => model_calls = <<"stream">>
    /\ wpc \in {"idle", "start"} => model_calls = <<>>
    /\ InScanOrder(AllInvocations)
    /\ \A n \in 1..Len(AllInvocations) :
          /\ AllInvocations[n].worker \in 1..Len(categories)
          /\ AllInvocations[n].file_no \in 1..Len(scan_files)
    /\ Len(AllInvocations) <= 2 * Len(categories) * Len(scan_files)

\* two workers went through two files: the first made a blocking call for
\* the first file, the second for the second file
C21_Witness ==
    /\ kpc = "returned"
    /\ Len(categories) = 2
    /\ Len(scan_files) = 2
    /\ Len(invocations) = 6
    /\ invocations[2] = [worker |-> 1, file_no |-> 1, call |-> "blocking"]
    /\ invocations[3] = [worker |-> 1, file_no |-> 2, call |-> "stream"]
    /\ invocations[4] = [worker |-> 2, file_no |-> 1, call |-> "stream"]
    /\ invocations[6] = [worker |-> 2, file_no |-> 2, call |-> "blocking"]

\* the paths create_virtual_diff and _create_simplified_diff count as
\* processed (repo_scanner.py lines 338 and 412)
ProcessedFiles(files, fsys) ==
    { PathChars(files[i]) :
        i \in { n \in 1..Len(files) :
                  VirtualDiffStep(EmptyAcc, files[n], fsys[files[n]]).processed_files = 1 } }

\* C28: when a worker has gone through its files, the files it reviewed are
\* the files the synthesizer counted as processed, whether it was handed the
\* virtual diff or the text of _create_simplified_diff.
C28_ReviewedEqualsProcessed ==
    (kpc = "review" /\ rpc = "loop" /\ file_index = Len(scan_files))
        => { scanned[n] : n \in 1..Len(scanned) } = ProcessedFiles(files_to_scan, fs)

(***************************************************************************)
(* Rendering: format_review of formatter.py, after a review of diff mode   *)
(***************************************************************************)
\* the text that, found in the summary, leaves the Changelog out (line 63)
SummarySkippedMarker == <<"u5df2", "u8df3", "u8fc7", "u6458", "u8981", "u751f", "u6210">>

PlannerSummary == <<"R", "e", "n", "a", "m", "e", "s", " ", "a", " ", "h", "e", "l", "p", "e", "r">>

FormatSummaries == { PlannerSummary, ScanDoneSummary }

NoIssuesComment(cat) ==
    Comment(cat, None, None, <<"N", "o", " ">> \o CategoryValue(cat) \o <<" ", "i", "s", "s", "u", "e", "s", " ", "d", "e", "t", "e", "c", "t", "e", "d", ".">>,
            "LOW", None)

\* the responses of the workers of other categories that the aggregate holds
\* beside the one of the worker under watch
OtherResponses ==
    { <<>>,
      << [category |-> "DESIGN", comments |-> <<NoIssuesComment("DESIGN")>>] >>,
      << [category |-> "DESIGN",
          comments |-> << Comment("DESIGN", Some(<<"b", ".", "p", "y">>), Some(7), <<"y">>, "LOW", None),
                          Comment("DESIGN", Some(<<"a", ".", "p", "y">>), Some(9), <<"z">>, "CRITICAL", None),
                          Comment("DESIGN", Some(<<"a", ".", "p", "y">>), None, <<"w">>, "MEDIUM", None),
                          Comment("DESIGN", Some(<<"a", ".", "p", "y">>), Some(2), <<"v">>, "HIGH", None) >>] >> }

\* the comments of the aggregate, in the order of .items()
RECURSIVE AllCommentsOf(_)
AllCommentsOf(d) ==
    IF d = <<>> THEN <<>> ELSE Head(d).value \o AllCommentsOf(Tail(d))

\* "no issues detected" in comment.comment.lower()  (lines 20 and 82)
IsNoIssues(c) == Contains(Lower(c.comment), <<"n", "o", " ", "i", "s", "s", "u", "e", "s", " ", "d", "e", "t", "e", "c", "t", "e", "d">>)

\* lines 26-34: the comment goes under its file name, with its line number
\* or 0; a comment without file name goes nowhere
FileEntry(by_file, c) ==
    IF c.file_name = None \/ c.file_name[1] = <<>> THEN by_file
    ELSE LET line == IF c.line_number = None \/ c.line_number[1] = 0
                     THEN 0 ELSE c.line_number[1]
             sofar == IF c.file_name[1] \in DictKeys(by_file)
                      THEN DictGet(by_file, c.file_name[1]) ELSE <<>>
         IN DictPut(by_file, c.file_name[1], Append(sofar, [line |-> line, comment |-> c]))

\* _organize_comments_by_file (lines 13-36)
RECURSIVE OrganizeOver(_, _)
OrganizeOver(comments, by_file) ==
    IF comments = <<>> THEN by_file
    ELSE OrganizeOver(Tail(comments),
                      IF IsNoIssues(Head(comments)) THEN by_file
                      ELSE FileEntry(by_file, Head(comments)))

OrganizeCommentsByFile(response) == OrganizeOver(AllCommentsOf(response.categories), <<>>)

\* sorted(comments, key=lambda x: x[0]): by line number, equal ones in the
\* order they came
RECURSIVE SortedByLine(_)
SortedByLine(entries) ==
    IF entries = <<>> THEN <<>>
    ELSE LET least == CHOOSE i \in 1..Len(entries) :
                         /\ \A j \in 1..Len(entries) : entries[i].line <= entries[j].line
                         /\ \A j \in 1..(i - 1) : entries[j].line # entries[i].line
         IN <<entries[least]>>
            \o SortedByLine(SubSeq(entries, 1, least - 1)
                            \o SubSeq(entries, least + 1, Len(entries)))

\* _get_severity_emoji (lines 46-57) and severity.value
SeverityEmoji(sev) ==
    CASE sev = "CRITICAL" -> <<"u1f534">>
      [] sev = "HIGH" -> <<"u1f7e0">>
      [] sev = "MEDIUM" -> <<"u1f7e1">>
      [] sev = "LOW" -> <<"u1f7e2">>

SeverityValue(sev) ==
    CASE sev = "CRITICAL" -> <<"C", "r", "i", "t", "i", "c", "a", "l">>
      [] sev = "HIGH" -> <<"H", "i", "g", "h">>
      [] sev = "MEDIUM" -> <<"M", "e", "d", "i", "u", "m">>
      [] sev = "LOW" -> <<"L", "o", "w">>

\* lines 110-113: the line of one comment
CommentLine(entry) ==
    <<"-", " ", "*", "*">>
    \o (IF entry.line > 0 THEN <<"L", "i", "n", "e", " ">> \o IntToChars(entry.line)
        ELSE <<"F", "i", "l", "e", "-", "l", "e", "v", "e", "l", " ", "c", "o", "m", "m", "e", "n", "t">>)
    \o <<"*", "*", " ", "(">> \o CategoryValue(entry.comment.category) \o <<")", " ">>
    \o SeverityEmoji(entry.comment.severity)
    \o <<" ", "*", "*">> \o SeverityValue(entry.comment.severity) \o <<"*", "*", ":", " ">>
    \o entry.comment.comment

\* lines 102-114: the section of each file
RECURSIVE FileSections(_)
FileSections(by_file) ==
    IF by_file = <<>> THEN <<>>
    ELSE << <<"#", "#", "#", " ">> \o Head(by_file).key \o <<"\n">> >>
         \o [i \in 1..Len(Head(by_file).value) |->
                CommentLine(SortedByLine(Head(by_file).value)[i])]
         \o << <<>> >>
         \o FileSections(Tail(by_file))

\* MarkdownFormatter.format (lines 59-116): the lines of md_output
FormatLines(response, by_file) ==
    << <<"#", " ", "C", "o", "d", "e", " ", "R", "e", "v", "i", "e", "w">> >>
    \o (IF ~Contains(response.summary, SummarySkippedMarker)
        THEN << <<"\n", "#", "#", " ", "C", "h", "a", "n", "g", "e", "l", "o", "g", "\n">>, response.summary \o <<"\n">> >>
        ELSE <<>>)
    \o << <<"\n", "#", "#", " ", "D", "e", "t", "a", "i", "l", "s", " ", "b", "y", " ", "F", "i", "l", "e", "\n">> >>
    \o FileSections(by_file)

\* format_review (lines 120-134): "\n".join(md_output)
FormatReviewText(response) ==
    JoinWith(FormatLines(response, OrganizeCommentsByFile(response)), <<"\n">>)

FormatInit ==
    /\ client \in ScanClients
    /\ worker_category \in ScanCategories
    /\ chunks_read = 0
    /\ llm_content = <<>>
    /\ model_calls = <<>>
    /\ worker_response = None
    /\ wpc = "start"
    /\ review_response = None
    /\ comments_by_file = None
    /\ md_output = None
    /\ fpc = "review"
    /\ CompactorIdle
    /\ SynthIdle
    /\ SeverityIdle
    /\ ParserIdle
    /\ RepoScanIdle
    /\ ScanIdle

\* the planner gathers the responses of its workers under their categories
\* and adds a summary
PlannerAggregate ==
    /\ fpc = "review"
    /\ wpc = "done"
    /\ \E others \in OtherResponses, summary \in FormatSummaries :
          review_response' =
             Some(CodeReviewResponse(
                    CategoriesDict(<< [category |-> worker_category,
                                       comments |-> worker_response[1]] >> \o others, <<>>),
                    summary))
    /\ fpc' = "format"
    /\ UNCHANGED <<comments_by_file, md_output,
                   compactorVars, synthVars, severityVars, parserVars, workerVars,
                   repoScanVars, scanVars>>

\* format_review(git_diff, response): MarkdownFormatter(git_diff, response)
\* organizes the comments by file (line 11), format() renders them
FormatReview ==
    /\ fpc = "format"
    /\ comments_by_file' = Some(OrganizeCommentsByFile(review_response[1]))
    /\ md_output' = Some(FormatReviewText(review_response[1]))
    /\ fpc' = "done"
    /\ UNCHANGED <<review_response,
                   compactorVars, synthVars, severityVars, parserVars, workerVars,
                   repoScanVars, scanVars>>

FormatNext ==
    \/ OpenStream
    \/ NextChunk
    \/ StreamEnds
    \/ StreamRaises
    \/ BlockingCall
    \/ CheckAndParse
    \/ PlannerAggregate
    \/ FormatReview

SpecFormat == FormatInit /\ [][FormatNext]_vars

\* C20: the HIGH comment that a worker of diff mode makes of a failure, a
\* comment without file path, is in the aggregate and in the text that
\* format_review renders from the aggregate.
C20_FailureCommentRendered ==
    (fpc = "done" /\ IsErrorComment(worker_response[1])) =>
        /\ \E i \in 1..Len(AllCommentsOf(review_response[1].categories)) :
              AllCommentsOf(review_response[1].categories)[i] = worker_response[1][1]
        /\ Contains(md_output[1], worker_response[1][1].comment)

====
